---- MODULE Spec2Model ----
(***************************************************************************)
(* A model of the content-generation pipeline of the AI PowerPoint         *)
(* generator: the retry loops of generate_presentation_content and of the  *)
(* four providers' generate (llm_client.py, llm_providers.py), the         *)
(* response parser parse_llm_response and get_user_prompt (llm_client.py), *)
(* create_provider (llm_providers.py), validate_presentation_data,         *)
(* generate_pptx and the bullet loop of create_content_slide               *)
(* (pptx_generator.py), and run_batch_generation (main.py).                *)
(*                                                                         *)
(* Text is a sequence of tokens.  Each token stands for a fixed run of     *)
(* characters ("FENCE" is three backticks, "json" the four letters, "\n"  *)
(* a line break), so that strip, split, the substring tests, json.loads   *)
(* and the regular-expression search are computed on the text as the code  *)
(* computes them.                                                          *)
(***************************************************************************)
EXTENDS Integers, Sequences, FiniteSets, TLC

VARIABLES
    \* ---- one invocation of a retry loop ----
    who,          \* the function invoked
    pc,           \* position in the loop
    attempt,      \* the loop variable
    calls,        \* backend calls made so far
    progress,     \* values passed to progress_callback, in order
    sleeps,       \* time.sleep calls: <<attempt index, seconds>>
    failures,     \* the exception handled or propagated at each failed attempt
    replies,      \* the text the backend returned at each attempt that got one
    last_error,   \* the local last_error
    exc,          \* the exception in flight
    reply,        \* the reply of the current attempt
    wait_time,    \* seconds of the pending sleep
    ret,          \* the value returned
    raised,       \* the exception the invocation ended with
    \* ---- parse_llm_response applied to one text ----
    response_text,  \* the argument
    base_text,      \* the text before it was put in a fence
    pstate,         \* "input" | "parsed"
    parsed,         \* the outcome for response_text
    base_parsed,    \* the outcome for base_text
    fenced,         \* whether response_text is base_text inside a json fence
    wrap_kind,      \* how the first text was laid out around its body
    body_text,      \* the body the first text was built around
    \* ---- the loop of create_content_slide over its content strings ----
    bullet_points,  \* the argument
    point_i,        \* how many content strings the for statement has taken
    paragraphs,     \* the paragraphs the loop has given a text, in order
    point,          \* the content string in hand
    clean_point,    \* the local clean_point
    level,          \* the local level
    bstate,         \* "for" | "input" | "loop" | "done"
    p_text,         \* the text given to the paragraph
    p_level,        \* the level given to the paragraph
    \* ---- one call of generate_pptx ----
    presentation_data,  \* the argument, as passed
    theme_name,         \* the argument
    dstate,             \* "input" | "slides" | "done" | "raised"
    theme,              \* the local theme
    validated,          \* the outcome of validate_presentation_data
    next_slide,         \* position of the loop over the validated slides
    prs,                \* the slides added to the presentation, in order
    derr,               \* the exception generate_pptx ended with
    saved,              \* whether prs.save was reached
    \* ---- one call of get_user_prompt ----
    file_content,   \* the argument: runs of equal characters
    file_name,      \* the argument
    user_prompt,    \* the value returned
    qstate,         \* "input" | "built"
    \* ---- one call of create_provider, and the first backend call ----
    environ,            \* os.environ: what each variable holds
    installed,          \* the optional packages that can be imported
    provider_name,      \* the argument
    prov_state,         \* "input" | "constructed" | "raised" | "called"
    provider,           \* the provider constructed
    prov_err,           \* the exception create_provider ended with
    call_key,           \* the api key the first backend call was made with
    \* ---- one call of run_batch_generation ----
    n_files,        \* len(input_files)
    idx,            \* the loop variable i
    rstep,          \* position of run_generation for the current file
    run_exc,        \* the exception run_generation ended with
    started,        \* the files whose processing began, in order
    ended,          \* the files whose processing ended, in order
    in_progress,    \* the files being processed
    gen_outcome,    \* how the content generation of each file ended
    written,        \* the files for which generate_pptx was reached
    success,        \* results['success']
    failed,         \* results['failed']
    batch_state,    \* "loop" | "summary" | "exited"
    exit_code,      \* the code of the SystemExit that ended the batch
    \* ---- validate_presentation_data applied to data, then to its result ----
    vdata,          \* the argument data of the first call
    once,           \* the outcome of the first call
    twice,          \* the outcome of the call on the first call's result
    vstate          \* "input" | "once" | "twice" | "raised"

invVars == <<who, pc, attempt, calls, progress, sleeps, failures, replies,
             last_error, exc, reply, wait_time, ret, raised>>
parseVars == <<response_text, base_text, pstate, parsed, base_parsed, fenced,
               wrap_kind, body_text>>
bulletVars == <<bullet_points, point_i, paragraphs, point, clean_point, level,
                bstate, p_text, p_level>>
deckVars == <<presentation_data, theme_name, dstate, theme, validated,
              next_slide, prs, derr, saved>>
promptVars == <<file_content, file_name, user_prompt, qstate>>
provVars == <<environ, installed, provider_name, prov_state,
              provider, prov_err, call_key>>
runVars == <<n_files, idx, rstep, run_exc, started, ended, in_progress,
             gen_outcome, written, success, failed, batch_state, exit_code>>
validVars == <<vdata, once, twice, vstate>>
auxVars == <<bulletVars, deckVars, promptVars, provVars, runVars, validVars>>
otherThanBullet == <<invVars, parseVars, deckVars, promptVars, provVars, runVars,
                     validVars>>
otherThanDeck == <<invVars, parseVars, bulletVars, promptVars, provVars, runVars,
                   validVars>>
otherThanPrompt == <<invVars, parseVars, bulletVars, deckVars, provVars, runVars,
                     validVars>>
otherThanProv == <<invVars, parseVars, bulletVars, deckVars, promptVars, runVars,
                   validVars>>
otherThanRun == <<invVars, parseVars, bulletVars, deckVars, promptVars, provVars,
                  validVars>>
otherThanValid == <<invVars, parseVars, bulletVars, deckVars, promptVars,
                    provVars, runVars>>
vars == <<invVars, parseVars, auxVars>>

---------------------------------------------------------------------------
\* Program constants (config.py)
RETRY_ATTEMPTS == 3
RETRY_DELAY == 2
MAX_INPUT_CHARS == 50000

\* THEMES; 'colors' is COLOR_SCHEMES under the same key
THEMES ==
    [professional |->
        [name |-> "Professional", style |-> "Clean & Business",
         primary_color |-> "#005293", colors |-> "professional",
         font_title |-> "Calibri", font_body |-> "Calibri",
         title_size |-> 44, subtitle_size |-> 28, body_size |-> 20,
         bullet_size |-> 18],
     modern |->
        [name |-> "Modern", style |-> "Sleek & Contemporary",
         primary_color |-> "#1a1a1a", colors |-> "modern",
         font_title |-> "Segoe UI", font_body |-> "Segoe UI Light",
         title_size |-> 48, subtitle_size |-> 24, body_size |-> 20,
         bullet_size |-> 18],
     creative |->
        [name |-> "Creative", style |-> "Bold & Expressive",
         primary_color |-> "#9c27b0", colors |-> "creative",
         font_title |-> "Arial Black", font_body |-> "Arial",
         title_size |-> 42, subtitle_size |-> 26, body_size |-> 20,
         bullet_size |-> 18],
     corporate |->
        [name |-> "Corporate", style |-> "Formal & Traditional",
         primary_color |-> "#003366", colors |-> "corporate",
         font_title |-> "Georgia", font_body |-> "Calibri",
         title_size |-> 40, subtitle_size |-> 24, body_size |-> 18,
         bullet_size |-> 16],
     minimal |->
        [name |-> "Minimal", style |-> "Simple & Elegant",
         primary_color |-> "#323232", colors |-> "minimal",
         font_title |-> "Helvetica", font_body |-> "Helvetica",
         title_size |-> 44, subtitle_size |-> 22, body_size |-> 18,
         bullet_size |-> 16],
     vibrant |->
        [name |-> "Vibrant", style |-> "Colorful & Energetic",
         primary_color |-> "#ff5722", colors |-> "vibrant",
         font_title |-> "Arial", font_body |-> "Arial",
         title_size |-> 46, subtitle_size |-> 26, body_size |-> 20,
         bullet_size |-> 18]]

NoTheme == [name |-> "none"]

\* Bounds of the model
MaxStrLen == 3

---------------------------------------------------------------------------
\* Text

QT == "\""
Fence == <<"FENCE">>
FenceJson == <<"FENCE", "json">>
Whitespace == {" ", "\n", "\t"}

RECURSIVE LStrip(_)
LStrip(s) ==
    IF s # <<>> /\ Head(s) \in Whitespace THEN LStrip(Tail(s)) ELSE s

RECURSIVE RStrip(_)
RStrip(s) ==
    IF s # <<>> /\ s[Len(s)] \in Whitespace
    THEN RStrip(SubSeq(s, 1, Len(s) - 1)) ELSE s

\* str.strip()
Strip(s) == RStrip(LStrip(s))

StartsAt(s, pat, i) ==
    /\ i + Len(pat) - 1 <= Len(s)
    /\ SubSeq(s, i, i + Len(pat) - 1) = pat

\* str.find from position i (1-based); 0 when absent
RECURSIVE Find(_, _, _)
Find(s, pat, i) ==
    IF i + Len(pat) - 1 > Len(s) THEN 0
    ELSE IF StartsAt(s, pat, i) THEN i
    ELSE Find(s, pat, i + 1)

\* pat in s
Contains(s, pat) == Find(s, pat, 1) # 0

\* s.split(pat): the parts between the non-overlapping occurrences of pat
RECURSIVE Split(_, _)
Split(s, pat) ==
    LET i == Find(s, pat, 1) IN
    IF i = 0 THEN <<s>>
    ELSE <<SubSeq(s, 1, i - 1)>> \o Split(SubSeq(s, i + Len(pat), Len(s)), pat)

---------------------------------------------------------------------------
\* json.loads

NoVal == [k |-> "none", v |-> <<>>]
JFail == [ok |-> FALSE, val |-> NoVal, next |-> 0]
JOk(val, next) == [ok |-> TRUE, val |-> val, next |-> next]

JStr(content) == [k |-> "str", v |-> content]
JNum(digits) == [k |-> "num", v |-> digits]
JArr(items) == [k |-> "arr", v |-> items]
JObj(members) == [k |-> "obj", v |-> members]
\* JSON null, Python None
JNull == [k |-> "null", v |-> <<>>]

RECURSIVE SkipWs(_, _)
SkipWs(s, i) ==
    IF i <= Len(s) /\ s[i] \in Whitespace THEN SkipWs(s, i + 1) ELSE i

RECURSIVE DigitsEnd(_, _)
DigitsEnd(s, i) ==
    IF i <= Len(s) /\ s[i] = "1" THEN DigitsEnd(s, i + 1) ELSE i

\* a string literal whose opening quote is at i - 1; a raw line break inside
\* it is an invalid control character
ParseString(s, i) ==
    LET j == Find(s, <<QT>>, i) IN
    IF j = 0 THEN JFail
    ELSE LET content == SubSeq(s, i, j - 1) IN
         IF \E n \in 1..Len(content) : content[n] = "\n" THEN JFail
         ELSE JOk(JStr(content), j + 1)

RECURSIVE ParseValue(_, _)
RECURSIVE ParseMembers(_, _, _)
RECURSIVE ParseElements(_, _, _)

ParseValue(s, i) ==
    IF i > Len(s) THEN JFail
    ELSE IF s[i] = "{" THEN
        LET j == SkipWs(s, i + 1) IN
        IF j <= Len(s) /\ s[j] = "}" THEN JOk(JObj(<<>>), j + 1)
        ELSE ParseMembers(s, j, <<>>)
    ELSE IF s[i] = "[" THEN
        LET j == SkipWs(s, i + 1) IN
        IF j <= Len(s) /\ s[j] = "]" THEN JOk(JArr(<<>>), j + 1)
        ELSE ParseElements(s, j, <<>>)
    ELSE IF s[i] = QT THEN ParseString(s, i + 1)
    ELSE IF s[i] = "1" THEN
        LET j == DigitsEnd(s, i) IN JOk(JNum(SubSeq(s, i, j - 1)), j)
    ELSE JFail

\* the members of an object from the key at i on; a repeated key keeps the
\* last value
ParseMembers(s, i, acc) ==
    IF i > Len(s) \/ s[i] # QT THEN JFail
    ELSE LET key == ParseString(s, i + 1) IN
    IF ~key.ok THEN JFail
    ELSE LET c == SkipWs(s, key.next) IN
    IF c > Len(s) \/ s[c] # ":" THEN JFail
    ELSE LET pv == ParseValue(s, SkipWs(s, c + 1)) IN
    IF ~pv.ok THEN JFail
    ELSE LET e == SkipWs(s, pv.next)
             acc2 == (key.val.v :> pv.val) @@ acc
         IN
         IF e > Len(s) THEN JFail
         ELSE IF s[e] = "}" THEN JOk(JObj(acc2), e + 1)
         ELSE IF s[e] = "," THEN ParseMembers(s, SkipWs(s, e + 1), acc2)
         ELSE JFail

ParseElements(s, i, acc) ==
    LET pv == ParseValue(s, i) IN
    IF ~pv.ok THEN JFail
    ELSE LET e == SkipWs(s, pv.next)
             acc2 == Append(acc, pv.val)
         IN
         IF e > Len(s) THEN JFail
         ELSE IF s[e] = "]" THEN JOk(JArr(acc2), e + 1)
         ELSE IF s[e] = "," THEN ParseElements(s, SkipWs(s, e + 1), acc2)
         ELSE JFail

\* json.loads(s): one value, surrounded by whitespace only
Loads(s) ==
    LET pv == ParseValue(s, SkipWs(s, 1)) IN
    IF pv.ok /\ SkipWs(s, pv.next) > Len(s) THEN pv ELSE JFail

---------------------------------------------------------------------------
\* parse_llm_response

KeyTitle == <<"title">>
KeySlides == <<"slides">>
\* the placeholder 'Generated Presentation', one token that no input holds
DefaultTitle == JStr(<<"Generated Presentation">>)

PReturn(val) == [kind |-> "return", val |-> val, err |-> "none"]
PRaise(err) == [kind |-> "raise", val |-> NoVal, err |-> err]
Pending == [kind |-> "pending", val |-> NoVal, err |-> "none"]
NotAnObject == "ValueError: Response is not a JSON object"
ParseFailed == "ValueError: Failed to parse LLM response as JSON"

\* the text between the markdown fences, when there are any
ExtractFenced(cleaned) ==
    IF Contains(cleaned, FenceJson)
    THEN Split(Split(cleaned, FenceJson)[2], Fence)[1]
    ELSE IF Contains(cleaned, Fence)
    THEN LET parts == Split(cleaned, Fence) IN
         IF Len(parts) >= 2 THEN parts[2] ELSE cleaned
    ELSE cleaned

\* data['slides'] = [] and data['title'] = 'Generated Presentation' when absent
Backfill(data) ==
    LET m1 == IF KeySlides \notin DOMAIN data.v
              THEN (KeySlides :> JArr(<<>>)) @@ data.v ELSE data.v
        m2 == IF KeyTitle \notin DOMAIN m1
              THEN (KeyTitle :> DefaultTitle) @@ m1 ELSE m1
    IN JObj(m2)

RECURSIVE LastIndex(_, _, _)
LastIndex(s, c, i) ==
    IF i = 0 THEN 0 ELSE IF s[i] = c THEN i ELSE LastIndex(s, c, i - 1)

\* re.search(r'\{[\s\S]*\}', text): from the first "{" to the last "}" after it
BraceSpan(text) ==
    LET i == Find(text, <<"{">>, 1)
        j == LastIndex(text, "}", Len(text))
    IN IF i # 0 /\ j > i
       THEN [found |-> TRUE, text |-> SubSeq(text, i, j)]
       ELSE [found |-> FALSE, text |-> <<>>]

\* the except json.JSONDecodeError branch
Fallback(text) ==
    LET m == BraceSpan(text) IN
    IF m.found /\ Loads(m.text).ok
    THEN PReturn(Loads(m.text).val)
    ELSE PRaise(ParseFailed)

ParseLLMResponse(text) ==
    LET cleaned == Strip(ExtractFenced(Strip(text)))
        data == Loads(cleaned)
    IN IF data.ok
       THEN IF data.val.k # "obj" THEN PRaise(NotAnObject)
            ELSE PReturn(Backfill(data.val))
       ELSE Fallback(text)

---------------------------------------------------------------------------
\* The texts parse_llm_response is applied to

StrAlphabet == {"x", "1", "FENCE", "json", "{", "}"}
StrContents == UNION {[1..n -> StrAlphabet] : n \in 0..MaxStrLen}

Quoted(s) == <<QT>> \o s \o <<QT>>
Member(key, value) == Quoted(key) \o <<":">> \o value

\* {"title":"<s>","slides":[]}
DeckText(s) ==
    <<"{">> \o Member(KeyTitle, Quoted(s)) \o <<",">>
            \o Member(KeySlides, <<"[", "]">>) \o <<"}">>

\* {"title":"x","slides":[{"content":["<s>"]}]}
DeckWithSlideText(s) ==
    <<"{">> \o Member(KeyTitle, Quoted(<<"x">>)) \o <<",">>
            \o Member(KeySlides,
                 <<"[", "{">> \o Member(<<"content">>, <<"[">> \o Quoted(s) \o <<"]">>)
                 \o <<"}", "]">>)
            \o <<"}">>

OtherBodies ==
    { <<"{", "}">>,
      <<"{">> \o Member(<<"x">>, <<"1">>) \o <<"}">>,
      <<"{">> \o Member(KeyTitle, Quoted(<<"x">>)) \o <<"}">>,
      <<"{">> \o Member(KeySlides, <<"[", "]">>) \o <<"}">>,
      <<"{">> \o Member(<<"x">>, <<"1">>) \o <<",">> \o Member(<<"x">>, <<"[", "]">>) \o <<"}">>,
      <<"{">> \o Member(<<"x">>, <<"1">>) \o <<",", "}">>,
      <<"{", " ">> \o Member(KeySlides, <<" ", "[", "1", ",", "1", "1", "]">>) \o <<"\n", "}">>,
      <<"1">>, <<"[", "]">>, Quoted(<<"x">>), <<"x">>, <<"{">>, <<>> }

Bodies ==
    {DeckText(s) : s \in StrContents}
        \cup {DeckWithSlideText(s) : s \in StrContents}
        \cup OtherBodies

\* J inside a fenced code block labelled json
JsonFenced(body) == <<"FENCE", "json", "\n">> \o body \o <<"\n", "FENCE">>

WrapKinds == {"plain", "padded", "jsonfence", "fence", "prose",
              "prose_fence", "prose_jsonfence", "prose_open", "prose_close"}

Wrap(kind, body) ==
    CASE kind = "plain" -> body
      [] kind = "padded" -> <<"\n">> \o body \o <<" ", "\n">>
      [] kind = "jsonfence" -> JsonFenced(body)
      [] kind = "fence" -> <<"FENCE", "\n">> \o body \o <<"\n", "FENCE">>
      [] kind = "prose" -> <<"x", " ">> \o body \o <<" ", "x">>
      [] kind = "prose_fence" ->
            <<"x", "\n", "FENCE", "\n">> \o body \o <<"\n", "FENCE", "\n", "x">>
      [] kind = "prose_jsonfence" ->
            <<"x", "\n">> \o JsonFenced(body) \o <<"\n", "x">>
      [] kind = "prose_open" -> <<"x", "{", " ">> \o body \o <<" ", "x">>
      [] kind = "prose_close" -> <<"x", " ">> \o body \o <<" ", "}", " ", "x">>

ParseInputs == {Wrap(w, b) : w \in WrapKinds, b \in Bodies}

---------------------------------------------------------------------------
\* Exceptions.  The classes are those of the openai package that the except
\* clauses name, with their base classes; Anthropic's and requests' errors of
\* the same kinds are subclasses of Exception too.

Parent(cls) ==
    CASE cls = "RateLimitError" -> "APIStatusError"
      [] cls = "BadRequestError" -> "APIStatusError"
      [] cls = "AuthenticationError" -> "APIStatusError"
      [] cls = "InternalServerError" -> "APIStatusError"
      [] cls = "APIStatusError" -> "APIError"
      [] cls = "APIConnectionError" -> "APIError"
      [] cls = "APIError" -> "OpenAIError"
      [] cls = "OpenAIError" -> "Exception"
      [] cls = "ValueError" -> "Exception"
      [] cls = "AttributeError" -> "Exception"
      [] cls = "IndexError" -> "LookupError"
      [] cls = "KeyError" -> "LookupError"
      [] cls = "LookupError" -> "Exception"
      [] cls = "TypeError" -> "Exception"
      [] cls = "ImportError" -> "Exception"
      [] cls = "FileNotFoundError" -> "OSError"
      [] cls = "PermissionError" -> "OSError"
      [] cls = "OSError" -> "Exception"
      [] cls = "SystemExit" -> "BaseException"
      [] cls = "Exception" -> "BaseException"
      [] cls = "KeyboardInterrupt" -> "BaseException"
      [] OTHER -> "object"

RECURSIVE IsSubclass(_, _)
IsSubclass(cls, base) ==
    IF cls = base THEN TRUE
    ELSE IF cls = "object" THEN FALSE
    ELSE IsSubclass(Parent(cls), base)

NoExc == [cls |-> "None", at |-> 0, msg |-> "none"]
Exc(cls, at, msg) == [cls |-> cls, at |-> at, msg |-> msg]

NotRaised == [exc |-> NoExc, terminal |-> FALSE, attempts |-> 0, cause |-> NoExc]
Propagated(e) == [exc |-> e, terminal |-> FALSE, attempts |-> 0, cause |-> NoExc]

\* raise ValueError(f"... after {RETRY_ATTEMPTS} attempts ... {last_error}")
TerminalError(last) ==
    [exc |-> Exc("ValueError", RETRY_ATTEMPTS, "failed after attempts"),
     terminal |-> TRUE, attempts |-> RETRY_ATTEMPTS, cause |-> last]

---------------------------------------------------------------------------
\* The retry loops

Client == "generate_presentation_content"
Providers == {"DeepSeekProvider", "OpenAIProvider", "AnthropicProvider",
              "OllamaProvider"}
Invokers == {Client} \cup Providers

\* what the backend call can raise
BackendErrors == {"RateLimitError", "APIConnectionError", "InternalServerError",
                  "BadRequestError", "AuthenticationError", "KeyboardInterrupt"}

NoReply == [kind |-> "none", text |-> <<>>]
TextReply(t) == [kind |-> "text", text |-> t]
\* a response whose text cannot be read: no choice, no content block, no
\* "response" key
Unreadable == [kind |-> "unreadable", text |-> <<>>]
\* message.content is None
NoneContent == [kind |-> "pynone", text |-> <<>>]

ReplyTexts ==
    { DeckText(<<"x">>),
      JsonFenced(DeckText(<<"x">>)),
      <<"1">>,
      <<"x">>,
      <<"x", " ", "{">> \o Member(<<"x">>, <<"1">>) \o <<"}">> }

BackendReplies == {TextReply(t) : t \in ReplyTexts} \cup {Unreadable, NoneContent}

\* for attempt in range(RETRY_ATTEMPTS)
LoopContinues(a) == a < RETRY_ATTEMPTS

\* a counter per error kind: a rate-limit failure does not use up an attempt
NextAttempt_PerKind(a, clause) ==
    IF clause = "RateLimitError" THEN a ELSE a + 1

NextAttempt(a, clause) == a + 1

\* progress values, in units of 1 / (10 * RETRY_ATTEMPTS)
ProgressBefore(a) == a * 3
ProgressReceived == 8 * RETRY_ATTEMPTS
ProgressDone == 10 * RETRY_ATTEMPTS

\* progress_callback(1.0) placed before the reply is parsed
ProgressAfterCall_DoneBeforeParse(w, parses) ==
    IF w = "generate_presentation_content"
    THEN <<ProgressReceived, ProgressDone>> ELSE <<ProgressReceived>>

\* what is reported once the backend call has returned: 0.8, and in
\* generate_presentation_content 1.0 after parse_llm_response has returned
ProgressAfterCall(w, parses) ==
    IF w = "generate_presentation_content" /\ parses
    THEN <<ProgressReceived, ProgressDone>> ELSE <<ProgressReceived>>

\* the exception that reading the reply's text raises when it cannot be read
ReadError(w) == IF w = "OllamaProvider" THEN "KeyError" ELSE "IndexError"

\* generate_presentation_content without its except ValueError clause
HandlerFor_NoValueError(w, cls) ==
    IF w = Client THEN
        IF IsSubclass(cls, "RateLimitError") THEN "RateLimitError"
        ELSE IF IsSubclass(cls, "APIConnectionError") THEN "APIConnectionError"
        ELSE IF IsSubclass(cls, "APIError") THEN "APIError"
        ELSE "none"
    ELSE IF w \in {"DeepSeekProvider", "OpenAIProvider"} THEN
        IF \/ IsSubclass(cls, "RateLimitError")
           \/ IsSubclass(cls, "APIConnectionError")
           \/ IsSubclass(cls, "APIError")
        THEN "APIError" ELSE "none"
    ELSE IF IsSubclass(cls, "Exception") THEN "Exception" ELSE "none"

\* the two providers with "except Exception" given a bare "except:"
HandlerFor_BareExcept(w, cls) ==
    IF w = Client THEN
        IF IsSubclass(cls, "RateLimitError") THEN "RateLimitError"
        ELSE IF IsSubclass(cls, "APIConnectionError") THEN "APIConnectionError"
        ELSE IF IsSubclass(cls, "APIError") THEN "APIError"
        ELSE IF IsSubclass(cls, "ValueError") THEN "ValueError"
        ELSE "none"
    ELSE IF w \in {"DeepSeekProvider", "OpenAIProvider"} THEN
        IF \/ IsSubclass(cls, "RateLimitError")
           \/ IsSubclass(cls, "APIConnectionError")
           \/ IsSubclass(cls, "APIError")
        THEN "APIError" ELSE "none"
    ELSE "Exception"

\* the except clause that handles cls, "none" when it propagates
HandlerFor(w, cls) ==
    IF w = Client THEN
        IF IsSubclass(cls, "RateLimitError") THEN "RateLimitError"
        ELSE IF IsSubclass(cls, "APIConnectionError") THEN "APIConnectionError"
        ELSE IF IsSubclass(cls, "APIError") THEN "APIError"
        ELSE IF IsSubclass(cls, "ValueError") THEN "ValueError"
        ELSE "none"
    ELSE IF w \in {"DeepSeekProvider", "OpenAIProvider"} THEN
        IF \/ IsSubclass(cls, "RateLimitError")
           \/ IsSubclass(cls, "APIConnectionError")
           \/ IsSubclass(cls, "APIError")
        THEN "APIError" ELSE "none"
    ELSE IF IsSubclass(cls, "Exception") THEN "Exception" ELSE "none"

Catches(w, cls) == HandlerFor(w, cls) # "none"

\* whether the handler calls time.sleep
SleepsAfter(w, clause, a) ==
    IF w = Client /\ clause = "RateLimitError" THEN TRUE
    ELSE a < RETRY_ATTEMPTS - 1

\* the argument of time.sleep
WaitTime(w, clause, a) ==
    IF w = Client /\ clause # "RateLimitError" THEN RETRY_DELAY
    ELSE RETRY_DELAY * (a + 1)

\* last_error set by the first failure only
KeepFirstError(old, e) == IF old = NoExc THEN e ELSE old

\* last_error = e
UpdateLastError(old, e) == e

\* the parts of the program that are not running
IdleBullet ==
    /\ bullet_points = <<>> /\ point_i = 0 /\ paragraphs = <<>>
    /\ point = <<>> /\ clean_point = <<>> /\ level = 0 /\ bstate = "idle"
    /\ p_text = <<>> /\ p_level = 0

IdleDeck ==
    /\ presentation_data = NoVal /\ theme_name = "none" /\ dstate = "idle"
    /\ theme = NoTheme /\ validated = Pending /\ next_slide = 0
    /\ prs = <<>> /\ derr = "none" /\ saved = FALSE

IdlePrompt ==
    /\ file_content = <<>> /\ file_name = "none" /\ user_prompt = <<>>
    /\ qstate = "idle"

NoProvider == [cls |-> "None", api_key |-> "none"]

IdleProv ==
    /\ environ = <<>> /\ installed = {}
    /\ provider_name = "none" /\ prov_state = "idle"
    /\ provider = NoProvider /\ prov_err = NoExc /\ call_key = "none"

\* run_generation returned
NoRunExc == [cls |-> "None", code |-> -1]

IdleRun ==
    /\ n_files = 0 /\ idx = 0 /\ rstep = "idle" /\ run_exc = NoRunExc
    /\ started = <<>> /\ ended = <<>> /\ in_progress = {}
    /\ gen_outcome = <<>> /\ written = {} /\ success = <<>>
    /\ failed = <<>> /\ batch_state = "idle" /\ exit_code = -1

IdleValid ==
    /\ vdata = NoVal /\ once = Pending /\ twice = Pending /\ vstate = "idle"

IdleAux ==
    IdleBullet /\ IdleDeck /\ IdlePrompt /\ IdleProv /\ IdleRun /\ IdleValid

Init ==
    /\ who \in Invokers
    /\ pc = "loop"
    /\ attempt = 0
    /\ calls = 0
    /\ progress = <<>>
    /\ sleeps = <<>>
    /\ failures = <<>>
    /\ replies = <<>>
    /\ last_error = NoExc
    /\ exc = NoExc
    /\ reply = NoReply
    /\ wait_time = 0
    /\ ret = Pending
    /\ raised = NotRaised
    /\ response_text = <<>>
    /\ base_text = <<>>
    /\ pstate = "idle"
    /\ parsed = Pending
    /\ base_parsed = Pending
    /\ fenced = FALSE
    /\ wrap_kind = "none"
    /\ body_text = <<>>
    /\ IdleAux

\* the top of the loop body: progress_callback(attempt / RETRY_ATTEMPTS * 0.3)
BeginAttempt ==
    /\ pc = "loop"
    /\ LoopContinues(attempt)
    /\ progress' = Append(progress, ProgressBefore(attempt))
    /\ pc' = "call"
    /\ UNCHANGED <<who, attempt, calls, sleeps, failures, replies, last_error,
                   exc, reply, wait_time, ret, raised, parseVars, auxVars>>

\* the backend call raises
BackendRaises ==
    /\ pc = "call"
    /\ \E cls \in BackendErrors :
          exc' = Exc(cls, attempt, "backend")
    /\ calls' = calls + 1
    /\ pc' = "except"
    /\ UNCHANGED <<who, attempt, progress, sleeps, failures, replies,
                   last_error, reply, wait_time, ret, raised, parseVars, auxVars>>

\* the backend call returns a response
BackendReturns ==
    /\ pc = "call"
    /\ \E r \in BackendReplies : reply' = r
    /\ calls' = calls + 1
    /\ pc' = "received"
    /\ UNCHANGED <<who, attempt, progress, sleeps, failures, replies,
                   last_error, exc, wait_time, ret, raised, parseVars, auxVars>>

\* progress_callback(0.8), then the reply's text is read and, in
\* generate_presentation_content, parsed
ReceiveReply ==
    /\ pc = "received"
    /\ replies' = Append(replies, reply)
    /\ IF reply.kind = "unreadable" THEN
            /\ progress' = progress \o ProgressAfterCall(who, FALSE)
            /\ exc' = Exc(ReadError(who), attempt, "unreadable")
            /\ pc' = "except"
            /\ ret' = ret
       ELSE IF who # Client THEN
            /\ progress' = progress \o ProgressAfterCall(who, FALSE)
            /\ ret' = PReturn([k |-> "raw", v |-> reply])
            /\ pc' = "returned"
            /\ exc' = exc
       ELSE IF reply.kind = "pynone" THEN
            /\ progress' = progress \o ProgressAfterCall(who, FALSE)
            /\ exc' = Exc("AttributeError", attempt, "NoneType has no strip")
            /\ pc' = "except"
            /\ ret' = ret
       ELSE LET p == ParseLLMResponse(reply.text) IN
            IF p.kind = "raise" THEN
                /\ progress' = progress \o ProgressAfterCall(who, FALSE)
                /\ exc' = Exc("ValueError", attempt, p.err)
                /\ pc' = "except"
                /\ ret' = ret
            ELSE
                /\ progress' = progress \o ProgressAfterCall(who, TRUE)
                /\ ret' = p
                /\ pc' = "returned"
                /\ exc' = exc
    /\ UNCHANGED <<who, attempt, calls, sleeps, failures, last_error, reply,
                   wait_time, raised, parseVars, auxVars>>

\* an except clause handles the exception and calls time.sleep
CatchAndSleep ==
    /\ pc = "except"
    /\ Catches(who, exc.cls)
    /\ SleepsAfter(who, HandlerFor(who, exc.cls), attempt)
    /\ last_error' = UpdateLastError(last_error, exc)
    /\ failures' = Append(failures, exc)
    /\ wait_time' = WaitTime(who, HandlerFor(who, exc.cls), attempt)
    /\ sleeps' = Append(sleeps,
                    [at |-> attempt,
                     secs |-> WaitTime(who, HandlerFor(who, exc.cls), attempt)])
    /\ pc' = "sleep"
    /\ UNCHANGED <<who, attempt, calls, progress, replies, exc, reply, ret,
                   raised, parseVars, auxVars>>

\* an except clause handles the exception without sleeping
CatchAndContinue ==
    /\ pc = "except"
    /\ Catches(who, exc.cls)
    /\ ~SleepsAfter(who, HandlerFor(who, exc.cls), attempt)
    /\ last_error' = UpdateLastError(last_error, exc)
    /\ failures' = Append(failures, exc)
    /\ attempt' = NextAttempt(attempt, HandlerFor(who, exc.cls))
    /\ pc' = "loop"
    /\ UNCHANGED <<who, calls, progress, sleeps, replies, exc, reply,
                   wait_time, ret, raised, parseVars, auxVars>>

\* no except clause matches: the exception leaves the function
Propagate ==
    /\ pc = "except"
    /\ ~Catches(who, exc.cls)
    /\ failures' = Append(failures, exc)
    /\ raised' = Propagated(exc)
    /\ pc' = "raised"
    /\ UNCHANGED <<who, attempt, calls, progress, sleeps, replies, last_error,
                   exc, reply, wait_time, ret, parseVars, auxVars>>

\* time.sleep returns
SleepReturns ==
    /\ pc = "sleep"
    /\ attempt' = NextAttempt(attempt, HandlerFor(who, exc.cls))
    /\ pc' = "loop"
    /\ UNCHANGED <<who, calls, progress, sleeps, failures, replies, last_error,
                   exc, reply, wait_time, ret, raised, parseVars, auxVars>>

\* the user interrupts time.sleep: KeyboardInterrupt leaves the handler
InterruptSleep ==
    /\ pc = "sleep"
    /\ raised' = Propagated(Exc("KeyboardInterrupt", attempt, "sleep"))
    /\ pc' = "raised"
    /\ UNCHANGED <<who, attempt, calls, progress, sleeps, failures, replies,
                   last_error, exc, reply, wait_time, ret, parseVars, auxVars>>

\* the loop is over: raise ValueError(... after RETRY_ATTEMPTS attempts ...)
Exhausted ==
    /\ pc = "loop"
    /\ ~LoopContinues(attempt)
    /\ raised' = TerminalError(last_error)
    /\ pc' = "raised"
    /\ UNCHANGED <<who, attempt, calls, progress, sleeps, failures, replies,
                   last_error, exc, reply, wait_time, ret, parseVars, auxVars>>

Next ==
    \/ BeginAttempt
    \/ BackendRaises
    \/ BackendReturns
    \/ ReceiveReply
    \/ CatchAndSleep
    \/ CatchAndContinue
    \/ Propagate
    \/ SleepReturns
    \/ InterruptSleep
    \/ Exhausted

Spec == Init /\ [][Next]_vars

---------------------------------------------------------------------------
\* parse_llm_response applied to one text, and then to the same text inside a
\* json fence

IdleInvoker ==
    /\ who = "none" /\ pc = "idle" /\ attempt = 0 /\ calls = 0
    /\ progress = <<>> /\ sleeps = <<>> /\ failures = <<>> /\ replies = <<>>
    /\ last_error = NoExc /\ exc = NoExc /\ reply = NoReply /\ wait_time = 0
    /\ ret = Pending /\ raised = NotRaised

IdleParse ==
    /\ response_text = <<>> /\ base_text = <<>> /\ pstate = "idle"
    /\ parsed = Pending /\ base_parsed = Pending /\ fenced = FALSE
    /\ wrap_kind = "none" /\ body_text = <<>>

InitParse ==
    /\ IdleInvoker
    /\ IdleAux
    /\ wrap_kind \in WrapKinds
    /\ body_text \in Bodies
    /\ response_text = Wrap(wrap_kind, body_text)
    /\ base_text = response_text
    /\ pstate = "input"
    /\ parsed = Pending
    /\ base_parsed = Pending
    /\ fenced = FALSE

ParseResponse ==
    /\ pstate = "input"
    /\ parsed' = ParseLLMResponse(response_text)
    /\ pstate' = "parsed"
    /\ UNCHANGED <<response_text, base_text, base_parsed, fenced, wrap_kind,
                   body_text, invVars, auxVars>>

PutInJsonFence ==
    /\ pstate = "parsed"
    /\ ~fenced
    /\ response_text' = JsonFenced(response_text)
    /\ base_text' = response_text
    /\ base_parsed' = parsed
    /\ parsed' = Pending
    /\ fenced' = TRUE
    /\ pstate' = "input"
    /\ UNCHANGED <<wrap_kind, body_text, invVars, auxVars>>

NextParse == ParseResponse \/ PutInJsonFence

SpecParse == InitParse /\ [][NextParse]_vars

---------------------------------------------------------------------------
\* create_content_slide: the text and the level of one bullet paragraph
\* (pptx_generator.py)

\* the deepest level a paragraph is given: min(level + 1, 2)
MAX_LEVEL == 2

MaxPointLen == 6

\* the longest list of content strings taken from PointSamples
MaxPoints == 3

IndentUnits == {<<" ", " ">>, <<"\t">>}
Markers == {<<"-", " ">>, <<"BULLET", " ">>, <<"*", " ">>}

\* s.startswith(tuple of prefixes)
StartsWithAny(s, prefixes) == \E pre \in prefixes : StartsAt(s, pre, 1)

\* s[n:]
DropFirst(s, n) == SubSeq(s, n + 1, Len(s))

Min(a, b) == IF a < b THEN a ELSE b

\* the condition of the while loop
HasPrefix(s) == StartsWithAny(s, IndentUnits \cup Markers)

\* level after one pass when the cap is left out
LevelAfter_NoCap(s, lvl) ==
    IF StartsWithAny(s, IndentUnits) THEN lvl + 1 ELSE lvl

\* level after one pass of the loop body
LevelAfter(s, lvl) ==
    IF StartsWithAny(s, IndentUnits) THEN Min(lvl + 1, MAX_LEVEL) ELSE lvl

\* clean_point after one pass when a marker is tested for but not removed
PointAfter_MarkerKept(s) ==
    IF StartsWithAny(s, IndentUnits)
    THEN IF StartsAt(s, <<" ", " ">>, 1) THEN DropFirst(s, 2)
         ELSE DropFirst(s, 1)
    ELSE s

\* clean_point after one pass of the loop body
PointAfter(s) ==
    IF StartsWithAny(s, IndentUnits)
    THEN IF StartsAt(s, <<" ", " ">>, 1) THEN DropFirst(s, 2)
         ELSE DropFirst(s, 1)
    ELSE DropFirst(s, 2)

\* "BULLET" is the round bullet character, "a" any other character
BulletAlphabet == {" ", "\t", "-", "BULLET", "*", "a"}

BulletInputs ==
    UNION {[1..n -> BulletAlphabet] : n \in 0..MaxPointLen}

\* content strings for the lists of more than one: empty, blank, plain,
\* with a marker, with a marker and an indentation
PointSamples ==
    {<<>>, <<" ">>, <<"a">>, <<"-", " ", "a">>, <<"-", " ", "\t", "a">>}

PointLists == UNION {[1..n -> PointSamples] : n \in 0..MaxPoints}

InitBullet ==
    /\ IdleInvoker
    /\ IdleParse
    /\ IdleDeck /\ IdlePrompt /\ IdleProv /\ IdleRun /\ IdleValid
    /\ bullet_points \in {<<pt>> : pt \in BulletInputs} \cup PointLists
    /\ point_i = 0
    /\ paragraphs = <<>>
    /\ point = <<>>
    /\ clean_point = <<>>
    /\ level = 0
    /\ bstate = "for"
    /\ p_text = <<>>
    /\ p_level = 0

\* for i, point in enumerate(bullet_points)
NextPoint ==
    /\ bstate \in {"for", "done"}
    /\ point_i < Len(bullet_points)
    /\ point_i' = point_i + 1
    /\ point' = bullet_points[point_i + 1]
    /\ bstate' = "input"
    /\ UNCHANGED <<bullet_points, paragraphs, clean_point, level, p_text,
                   p_level, otherThanBullet>>

\* level = 0; clean_point = point.strip()
StripPoint ==
    /\ bstate = "input"
    /\ level' = 0
    /\ clean_point' = Strip(point)
    /\ bstate' = "loop"
    /\ UNCHANGED <<bullet_points, point_i, paragraphs, point, p_text, p_level,
                   otherThanBullet>>

\* one pass of the while loop
StripPrefix ==
    /\ bstate = "loop"
    /\ HasPrefix(clean_point)
    /\ level' = LevelAfter(clean_point, level)
    /\ clean_point' = PointAfter(clean_point)
    /\ UNCHANGED <<bullet_points, point_i, paragraphs, point, bstate, p_text,
                   p_level, otherThanBullet>>

\* p.text = clean_point; p.level = level
SetParagraph ==
    /\ bstate = "loop"
    /\ ~HasPrefix(clean_point)
    /\ p_text' = clean_point
    /\ p_level' = level
    /\ paragraphs' = Append(paragraphs, [text |-> clean_point, level |-> level])
    /\ bstate' = "done"
    /\ UNCHANGED <<bullet_points, point_i, point, clean_point, level,
                   otherThanBullet>>

NextBullet == NextPoint \/ StripPoint \/ StripPrefix \/ SetParagraph

SpecBullet == InitBullet /\ [][NextBullet]_vars

---------------------------------------------------------------------------
\* validate_presentation_data and generate_pptx (pptx_generator.py).  The
\* presentation data is a JSON value as json.loads builds it.

MaxSlides == 2

KeyContent == <<"content">>
KeyNotes == <<"notes">>
KeyType == <<"type">>
KeyLeft == <<"left">>
KeyRight == <<"right">>
KeyLeftTitle == <<"left_title">>
KeyRightTitle == <<"right_title">>

\* d.get(key, default)
Get(d, key, default) == IF key \in DOMAIN d.v THEN d.v[key] ELSE default

\* bool(val)
Truthy(val) ==
    CASE val.k = "str" -> val.v # <<>>
      [] val.k = "num" -> \E i \in 1..Len(val.v) : val.v[i] # "0"
      [] val.k = "arr" -> val.v # <<>>
      [] val.k = "obj" -> DOMAIN val.v # {}
      [] OTHER -> FALSE

\* c and str(c).strip()
KeepEntry(c) == Truthy(c) /\ (c.k = "str" => Strip(c.v) # <<>>)

\* for ... in val raises TypeError
NotIterable(val) == val.k \notin {"arr", "str", "obj"}

\* the dicts met by "for slide in data['slides']"; the characters of a
\* string are not dicts
DictSlides(slides) ==
    IF slides.k = "arr"
    THEN SelectSeq(slides.v, LAMBDA sl : sl.k = "obj")
    ELSE <<>>

\* cleaned_slide['content'] before the filter
ContentList(slide) ==
    LET content == Get(slide, KeyContent, JArr(<<>>)) IN
    IF content.k = "str" THEN JArr(<<content>>) ELSE content

\* cleaned_slide
CleanSlide(slide) ==
    JObj((KeyTitle :> Get(slide, KeyTitle, JStr(<<"Untitled Slide">>)))
         @@ (KeyContent :> JArr(SelectSeq(ContentList(slide).v, KeepEntry)))
         @@ (KeyNotes :> Get(slide, KeyNotes, JStr(<<>>)))
         @@ (KeyType :> Get(slide, KeyType, JStr(<<"content">>))))

\* if cleaned_slide['content'] only: a section slide without content is lost
KeepSlide_ContentOnly(cleaned) == Truthy(cleaned.v[KeyContent])

\* if cleaned_slide['content'] or cleaned_slide['type'] == 'section'
KeepSlide(cleaned) ==
    \/ Truthy(cleaned.v[KeyContent])
    \/ cleaned.v[KeyType] = JStr(<<"section">>)

\* the keep test made on the content as passed, before the filter
CleanedSlides_KeepBeforeFilter(slides) ==
    LET kept == SelectSeq(slides,
                    LAMBDA sl : \/ Truthy(ContentList(sl))
                                \/ Get(sl, KeyType, JStr(<<"content">>))
                                      = JStr(<<"section">>))
    IN [i \in 1..Len(kept) |-> CleanSlide(kept[i])]

\* the section slides moved to the front
CleanedSlides_SectionsFirst(slides) ==
    LET cleaned == [i \in 1..Len(slides) |-> CleanSlide(slides[i])]
        IsSection(c) == c.v[KeyType] = JStr(<<"section">>)
    IN SelectSeq(cleaned, IsSection)
       \o SelectSeq(cleaned, LAMBDA c : ~IsSection(c) /\ Truthy(c.v[KeyContent]))

\* cleaned_slides
CleanedSlides(slides) ==
    LET cleaned == [i \in 1..Len(slides) |-> CleanSlide(slides[i])] IN
    SelectSeq(cleaned, KeepSlide)

\* validate_presentation_data(data)
ValidatePresentationData(data) ==
    IF data.k # "obj"
    THEN PRaise("ValueError: Presentation data must be a dictionary")
    ELSE
      LET title == IF KeyTitle \in DOMAIN data.v /\ Truthy(data.v[KeyTitle])
                   THEN data.v[KeyTitle]
                   ELSE JStr(<<"Untitled Presentation">>)
          slides == Get(data, KeySlides, JArr(<<>>))
          dicts == DictSlides(slides)
      IN
      IF \/ NotIterable(slides)
         \/ \E i \in 1..Len(dicts) : NotIterable(ContentList(dicts[i]))
      THEN PRaise("TypeError")
      ELSE PReturn(JObj((KeyTitle :> title)
                        @@ (KeySlides :> JArr(CleanedSlides(dicts)))
                        @@ data.v))

\* THEMES.get(theme_name, THEMES['modern'])
ResolveTheme_DefaultModern(name) ==
    IF name \in DOMAIN THEMES THEN THEMES[name] ELSE THEMES["modern"]

\* THEMES.get(theme_name, THEMES['professional'])
ResolveTheme(name) ==
    IF name \in DOMAIN THEMES THEN THEMES[name] ELSE THEMES["professional"]

\* a type that is not known is laid out as a section
LayoutOf_UnknownAsSection(slide_data) ==
    LET slide_type == Get(slide_data, KeyType, JStr(<<"content">>)) IN
    IF slide_type \notin {JStr(<<"content">>), JStr(<<"comparison">>)}
    THEN "section"
    ELSE IF /\ slide_type = JStr(<<"comparison">>)
            /\ KeyLeft \in DOMAIN slide_data.v
            /\ KeyRight \in DOMAIN slide_data.v
         THEN "two_column"
    ELSE "content"

\* every comparison slide takes the two-column branch
LayoutOf_AnyComparison(slide_data) ==
    LET slide_type == Get(slide_data, KeyType, JStr(<<"content">>)) IN
    IF slide_type = JStr(<<"section">>) THEN "section"
    ELSE IF slide_type = JStr(<<"comparison">>) THEN "two_column"
    ELSE "content"

\* the branch of the if / elif / else in the loop of generate_pptx
LayoutOf(slide_data) ==
    LET slide_type == Get(slide_data, KeyType, JStr(<<"content">>)) IN
    IF slide_type = JStr(<<"section">>) THEN "section"
    ELSE IF /\ slide_type = JStr(<<"comparison">>)
            /\ KeyLeft \in DOMAIN slide_data.v
            /\ KeyRight \in DOMAIN slide_data.v
         THEN "two_column"
    ELSE "content"

\* what a create_*_slide call is given
NewSlide(layout, title, body, left, right) ==
    [layout |-> layout, title |-> title, body |-> body,
     left |-> left, right |-> right]

TitleSlide(main_title) == NewSlide("title", main_title, NoVal, NoVal, NoVal)

ThankYouSlide == NewSlide("thank_you", NoVal, NoVal, NoVal, NoVal)

SlideFor(slide_data) ==
    LET slide_title == Get(slide_data, KeyTitle, JStr(<<"Untitled Slide">>))
        content == Get(slide_data, KeyContent, JArr(<<>>))
    IN
    CASE LayoutOf(slide_data) = "section" ->
            NewSlide("section", slide_title, NoVal, NoVal, NoVal)
      [] LayoutOf(slide_data) = "two_column" ->
            NewSlide("two_column", slide_title, NoVal,
                     Get(slide_data, KeyLeft, JArr(<<>>)),
                     Get(slide_data, KeyRight, JArr(<<>>)))
      [] OTHER -> NewSlide("content", slide_title, content, NoVal, NoVal)

\* create_content_slide calls point.strip() on every entry
StripFails(slide_data) ==
    /\ LayoutOf(slide_data) = "content"
    /\ LET content == Get(slide_data, KeyContent, JArr(<<>>)) IN
       \E i \in 1..Len(content.v) : content.v[i].k # "str"

\* The slides given to generate_pptx.  A slide is described by its 'type',
\* its 'content' and the columns it has; its title is its position.
SlideTitle(i) == <<"s", ToString(i)>>

TypeField(t) ==
    IF t = "absent" THEN <<>>
    ELSE IF t = "null" THEN KeyType :> JNull
    ELSE KeyType :> JStr(<<t>>)

ContentField(c) ==
    CASE c = "absent" -> <<>>
      [] c = "blank" -> KeyContent :> JArr(<<JStr(<<" ">>), JStr(<<>>)>>)
      [] c = "text" -> KeyContent :> JArr(<<JStr(<<"a">>)>>)
      [] c = "mixed" ->
            KeyContent :> JArr(<<JStr(<<>>), JStr(<<"a">>), JStr(<<"\t">>),
                                 JStr(<<" ", "-", " ", "a">>)>>)
      [] c = "str" -> KeyContent :> JStr(<<"a">>)
      [] c = "blankstr" -> KeyContent :> JStr(<<" ">>)
      [] c = "numentry" -> KeyContent :> JArr(<<JNum(<<"1">>)>>)
      [] c = "num" -> KeyContent :> JNum(<<"1">>)

SidesField(sd) ==
    CASE sd = "none" -> <<>>
      [] sd = "left" -> KeyLeft :> JArr(<<JStr(<<"a">>)>>)
      [] sd = "right" -> KeyRight :> JArr(<<JStr(<<"a">>)>>)
      [] sd = "both" ->
            (KeyLeft :> JArr(<<JStr(<<"a">>)>>))
            @@ (KeyRight :> JArr(<<JStr(<<"a">>)>>))
            @@ (KeyLeftTitle :> JStr(<<"a">>))

SlideKind(t, c, sd) == [type |-> t, content |-> c, sides |-> sd]

MainContents == {"absent", "blank", "text", "mixed"}

SlideKinds ==
    {SlideKind(t, c, "none") :
        t \in {"absent", "content", "section"}, c \in MainContents}
    \cup {SlideKind("comparison", c, sd) :
            c \in MainContents, sd \in {"none", "left", "right", "both"}}
    \cup {SlideKind("x", "text", "none"), SlideKind("x", "blank", "none"),
          SlideKind("x", "text", "both"), SlideKind("absent", "text", "both"),
          SlideKind("null", "text", "none"),
          SlideKind("content", "str", "none"),
          SlideKind("content", "blankstr", "none"),
          SlideKind("content", "numentry", "none"),
          SlideKind("nondict", "absent", "none")}

MkSlide(kind, i) ==
    IF kind.type = "nondict" THEN JStr(<<"a">>)
    ELSE JObj((KeyTitle :> JStr(SlideTitle(i)))
              @@ TypeField(kind.type)
              @@ ContentField(kind.content)
              @@ SidesField(kind.sides))

MkDeck(kinds) ==
    JObj((KeyTitle :> JStr(<<"x">>))
         @@ (KeySlides :> JArr([i \in 1..Len(kinds) |-> MkSlide(kinds[i], i)])))

\* the slides of the decks tried, by kind
DeckInputs == UNION {[1..n -> SlideKinds] : n \in 0..MaxSlides}

\* decks one slide longer, over fewer kinds: kept and dropped slides, and
\* an element that is no record
LongDeckKinds ==
    {SlideKind("content", "text", "none"), SlideKind("content", "blank", "none"),
     SlideKind("section", "absent", "none"),
     SlideKind("comparison", "text", "both"),
     SlideKind("nondict", "absent", "none")}

LongDecks == [1..(MaxSlides + 1) -> LongDeckKinds]

\* data that is not a dict, lacks its keys, or holds what cannot be iterated
OtherData ==
    << JObj(<<>>),
       JObj((KeyTitle :> JStr(<<>>))
            @@ (KeySlides :> JArr(<<MkSlide(SlideKind("content", "text", "none"), 1)>>))),
       JArr(<<>>),
       JObj(KeySlides :> JNum(<<"1">>)),
       JObj(KeySlides :> JStr(<<"a">>)),
       MkDeck(<<SlideKind("content", "num", "none")>>) >>

ThemeInputs == DOMAIN THEMES \cup {"Professional", "unknown", ""}

\* theme_name is used by line 368 alone, so the themes are tried on the
\* one-slide decks and the decks on the default value of the parameter
InitDeck ==
    /\ IdleInvoker
    /\ IdleParse
    /\ IdleBullet /\ IdlePrompt /\ IdleProv /\ IdleRun /\ IdleValid
    /\ \/ /\ theme_name = "professional"
          /\ \E kinds \in DeckInputs \cup LongDecks :
                presentation_data = MkDeck(kinds)
       \/ /\ theme_name = "professional"
          /\ \E n \in 1..Len(OtherData) : presentation_data = OtherData[n]
       \/ /\ theme_name \in ThemeInputs
          /\ \E kind \in SlideKinds : presentation_data = MkDeck(<<kind>>)
    /\ dstate = "input"
    /\ theme = NoTheme
    /\ validated = Pending
    /\ next_slide = 0
    /\ prs = <<>>
    /\ derr = "none"
    /\ saved = FALSE

\* lines 367-386: the theme, the validation and the title slide
BeginGenerate ==
    /\ dstate = "input"
    /\ theme' = ResolveTheme(theme_name)
    /\ validated' = ValidatePresentationData(presentation_data)
    /\ IF validated'.kind = "raise"
       THEN /\ dstate' = "raised"
            /\ derr' = validated'.err
            /\ UNCHANGED <<prs, next_slide>>
       ELSE /\ dstate' = "slides"
            /\ prs' = <<TitleSlide(Get(validated'.val, KeyTitle,
                                       JStr(<<"Untitled Presentation">>)))>>
            /\ next_slide' = 1
            /\ UNCHANGED derr
    /\ UNCHANGED <<presentation_data, theme_name, saved, otherThanDeck>>

\* one pass of the loop over the slides, lines 388-408
AddSlide ==
    /\ dstate = "slides"
    /\ LET slides == Get(validated.val, KeySlides, JArr(<<>>)).v IN
       /\ next_slide <= Len(slides)
       /\ IF StripFails(slides[next_slide])
          THEN /\ dstate' = "raised"
               /\ derr' = "AttributeError"
               /\ UNCHANGED <<prs, next_slide>>
          ELSE /\ prs' = Append(prs, SlideFor(slides[next_slide]))
               /\ next_slide' = next_slide + 1
               /\ UNCHANGED <<dstate, derr>>
    /\ UNCHANGED <<presentation_data, theme_name, theme, validated, saved,
                   otherThanDeck>>

\* lines 410-415: the closing slide and prs.save
FinishGenerate ==
    /\ dstate = "slides"
    /\ next_slide > Len(Get(validated.val, KeySlides, JArr(<<>>)).v)
    /\ prs' = Append(prs, ThankYouSlide)
    /\ saved' = TRUE
    /\ dstate' = "done"
    /\ UNCHANGED <<presentation_data, theme_name, theme, validated,
                   next_slide, derr, otherThanDeck>>

NextDeck == BeginGenerate \/ AddSlide \/ FinishGenerate

SpecDeck == InitDeck /\ [][NextDeck]_vars

---------------------------------------------------------------------------
\* get_user_prompt (llm_client.py).  A text is a sequence of runs, each a
\* character and the number of times it is repeated; neighbouring runs hold
\* different characters.

PromptSlack == 3

Run(ch, n) == [ch |-> ch, n |-> n]

\* len(text)
RECURSIVE TextLen(_)
TextLen(text) ==
    IF text = <<>> THEN 0 ELSE Head(text).n + TextLen(Tail(text))

\* text[:k]
RECURSIVE Take(_, _)
Take(text, k) ==
    IF text = <<>> \/ k <= 0 THEN <<>>
    ELSE IF Head(text).n <= k
         THEN <<Head(text)>> \o Take(Tail(text), k - Head(text).n)
    ELSE <<Run(Head(text).ch, k)>>

\* "\n\n[Content truncated due to length...]"
TruncationMarker == Run("[Content truncated due to length...]", 1)

\* the fixed parts of the f-string
PromptHead == Run("Please analyze the following content from file", 1)
PromptMiddle == Run("and create a COMPREHENSIVE PowerPoint presentation structure.", 1)
PromptTail == Run("Generate a thorough, detailed presentation", 1)

\* len(file_content) >= MAX_INPUT_CHARS
TooLong_AtCap(text) == TextLen(text) >= MAX_INPUT_CHARS

\* len(file_content) > MAX_INPUT_CHARS
TooLong(text) == TextLen(text) > MAX_INPUT_CHARS

\* get_user_prompt(file_content, file_name)
GetUserPrompt(content, name) ==
    LET embedded == IF TooLong(content)
                    THEN Take(content, MAX_INPUT_CHARS) \o <<TruncationMarker>>
                    ELSE content
    IN <<PromptHead, Run(name, 1), PromptMiddle>> \o embedded \o <<PromptTail>>

\* texts of a's followed by b's, around the cap, and two short ones
PromptTexts ==
    {IF nb = 0 THEN <<Run("a", na)>> ELSE <<Run("a", na), Run("b", nb)>> :
        na \in (MAX_INPUT_CHARS - PromptSlack)..(MAX_INPUT_CHARS + PromptSlack),
        nb \in 0..PromptSlack}
    \cup {<<>>, <<Run("a", 1)>>}

FileNames == {"notes.txt", "report.md", ""}

InitPrompt ==
    /\ IdleInvoker
    /\ IdleParse
    /\ IdleBullet /\ IdleDeck /\ IdleProv /\ IdleRun /\ IdleValid
    /\ file_content \in PromptTexts
    /\ file_name \in FileNames
    /\ user_prompt = <<>>
    /\ qstate = "input"

BuildPrompt ==
    /\ qstate = "input"
    /\ user_prompt' = GetUserPrompt(file_content, file_name)
    /\ qstate' = "built"
    /\ UNCHANGED <<file_content, file_name, otherThanPrompt>>

NextPrompt == BuildPrompt

SpecPrompt == InitPrompt /\ [][NextPrompt]_vars

---------------------------------------------------------------------------
\* create_provider and the constructors of the four providers
\* (llm_providers.py, config.py)

EnvVars == {"DEEPSEEK_API_KEY", "OPENAI_API_KEY", "ANTHROPIC_API_KEY"}

\* a variable is not in the environment, holds '', or holds a key
EnvValues == {"absent", "empty", "set"}

OptionalPackages == {"anthropic", "requests"}

\* DEEPSEEK_API_KEY = os.environ.get('DEEPSEEK_API_KEY', <a key literal>)
DEEPSEEK_API_KEY(env) ==
    IF env["DEEPSEEK_API_KEY"] = "absent" THEN "config default"
    ELSE env["DEEPSEEK_API_KEY"]

\* os.environ.get(var) is None or ''
NotSet(env, var) == env[var] \in {"absent", "empty"}

MissingMessage(var) ==
    CASE var = "OPENAI_API_KEY" -> "OPENAI_API_KEY environment variable not set"
      [] var = "ANTHROPIC_API_KEY" -> "ANTHROPIC_API_KEY environment variable not set"
      [] var = "DEEPSEEK_API_KEY" -> "DEEPSEEK_API_KEY environment variable not set"

Constructed(cls, api_key) ==
    [kind |-> "return", provider |-> [cls |-> cls, api_key |-> api_key],
     exc |-> NoExc]

ConstructorRaises(cls, msg) ==
    [kind |-> "raise", provider |-> NoProvider, exc |-> Exc(cls, 0, msg)]

\* DeepSeekProvider()
NewDeepSeekProvider(env) ==
    Constructed("DeepSeekProvider", DEEPSEEK_API_KEY(env))

\* OpenAIProvider()
NewOpenAIProvider(env) ==
    IF NotSet(env, "OPENAI_API_KEY")
    THEN ConstructorRaises("ValueError", MissingMessage("OPENAI_API_KEY"))
    ELSE Constructed("OpenAIProvider", env["OPENAI_API_KEY"])

\* AnthropicProvider()
NewAnthropicProvider(env, packages) ==
    IF NotSet(env, "ANTHROPIC_API_KEY")
    THEN ConstructorRaises("ValueError", MissingMessage("ANTHROPIC_API_KEY"))
    ELSE IF "anthropic" \notin packages
    THEN ConstructorRaises("ImportError", "anthropic package not installed")
    ELSE Constructed("AnthropicProvider", env["ANTHROPIC_API_KEY"])

\* OllamaProvider()
NewOllamaProvider(packages) ==
    IF "requests" \notin packages
    THEN ConstructorRaises("ImportError", "requests package not installed")
    ELSE Constructed("OllamaProvider", "none")

\* str.lower() on the names tried
Lower(name) ==
    CASE name = "OpenAI" -> "openai"
      [] name = "DeepSeek" -> "deepseek"
      [] OTHER -> name

\* create_provider(provider_name)
CreateProviderOutcome(name, env, packages) ==
    CASE Lower(name) = "deepseek" -> NewDeepSeekProvider(env)
      [] Lower(name) = "openai" -> NewOpenAIProvider(env)
      [] Lower(name) = "anthropic" -> NewAnthropicProvider(env, packages)
      [] Lower(name) = "ollama" -> NewOllamaProvider(packages)
      [] OTHER -> ConstructorRaises("ValueError", "Unknown provider")

ProviderNames ==
    {"deepseek", "openai", "anthropic", "ollama", "OpenAI", "DeepSeek", "gemini"}

InitProv ==
    /\ IdleInvoker
    /\ IdleParse
    /\ IdleBullet /\ IdleDeck /\ IdlePrompt /\ IdleRun /\ IdleValid
    /\ environ \in [EnvVars -> EnvValues]
    /\ installed \in SUBSET OptionalPackages
    /\ provider_name \in ProviderNames
    /\ prov_state = "input"
    /\ provider = NoProvider
    /\ prov_err = NoExc
    /\ call_key = "none"

CreateProvider ==
    /\ prov_state = "input"
    /\ LET outcome == CreateProviderOutcome(provider_name, environ, installed) IN
       /\ provider' = outcome.provider
       /\ prov_err' = outcome.exc
       /\ prov_state' = IF outcome.kind = "raise" THEN "raised" ELSE "constructed"
    /\ UNCHANGED <<environ, installed, provider_name, call_key, otherThanProv>>

\* the first backend call of generate, made with the key of the constructor
FirstBackendCall ==
    /\ prov_state = "constructed"
    /\ call_key' = provider.api_key
    /\ prov_state' = "called"
    /\ UNCHANGED <<environ, installed, provider_name, provider, prov_err,
                   otherThanProv>>

NextProv == CreateProvider \/ FirstBackendCall

SpecProv == InitProv /\ [][NextProv]_vars

---------------------------------------------------------------------------
\* run_batch_generation and run_generation (main.py).  The files are named
\* by their position in input_files.

MaxFiles == 3

\* the parameters of generate_presentation_content (llm_client.py)
GenerateParameters == {"file_content", "file_name", "progress_callback"}

\* the keywords of the call in run_generation
CallKeywords == {"provider_name", "progress_callback"}

\* Python binds the call only when every keyword is a parameter
CallBinds == CallKeywords \subseteq GenerateParameters

\* how get_file_info and read_file end
ReadOutcomes ==
    {"ok", "FileNotFoundError", "ValueError", "ImportError", "KeyboardInterrupt"}

\* how the call of generate_presentation_content ends: with the parsed
\* presentation, the terminal ValueError, an error no clause of the retry
\* loop catches, or an interrupt; a call that does not bind is a TypeError
GenerateOutcomes ==
    IF CallBinds
    THEN {"returned", "ValueError", "AttributeError", "KeyboardInterrupt"}
    ELSE {"TypeError", "KeyboardInterrupt"}

\* how generate_pptx and the export end
PptxOutcomes == {"ok", "PermissionError", "ValueError", "KeyboardInterrupt"}

RunExc(cls, code) == [cls |-> cls, code |-> code]

\* the except clauses of run_generation: what it ends with when cls is
\* raised inside the try block
RunHandler(cls) ==
    IF IsSubclass(cls, "FileNotFoundError") THEN RunExc("SystemExit", 1)
    ELSE IF IsSubclass(cls, "ValueError") THEN RunExc("SystemExit", 1)
    ELSE IF IsSubclass(cls, "KeyboardInterrupt") THEN RunExc("SystemExit", 0)
    ELSE RunExc(cls, -1)

\* generate_pptx is called whatever the generation did
PptxReached_Always(outcome) == TRUE

\* generate_pptx is the statement after the assignment of the call's value
PptxReached(outcome) == outcome = "returned"

\* except Exception in run_batch_generation
BatchCatches(cls) == IsSubclass(cls, "Exception")

\* the loop takes every second file
NextFile_Skip(i) == i + 2

\* enumerate(input_files, 1)
NextFile(i) == i + 1

InitRun ==
    /\ IdleInvoker
    /\ IdleParse
    /\ IdleBullet /\ IdleDeck /\ IdlePrompt /\ IdleProv /\ IdleValid
    /\ n_files \in 0..MaxFiles
    /\ idx = 0
    /\ rstep = "idle"
    /\ run_exc = NoRunExc
    /\ started = <<>>
    /\ ended = <<>>
    /\ in_progress = {}
    /\ gen_outcome = <<>>
    /\ written = {}
    /\ success = <<>>
    /\ failed = <<>>
    /\ batch_state = "loop"
    /\ exit_code = -1

\* the next pass of the for loop: run_generation is called
NextDocument ==
    /\ batch_state = "loop"
    /\ rstep = "idle"
    /\ idx < n_files
    /\ idx' = NextFile(idx)
    /\ started' = Append(started, idx')
    /\ in_progress' = in_progress \cup {idx'}
    /\ rstep' = "read"
    /\ UNCHANGED <<n_files, run_exc, ended, gen_outcome, written, success,
                   failed, batch_state, exit_code, otherThanRun>>

\* step 1 of run_generation, and its except clauses when the step raises
ReadInput ==
    /\ rstep = "read"
    /\ \E outcome \in ReadOutcomes :
         IF outcome = "ok"
         THEN /\ rstep' = "generate"
              /\ UNCHANGED <<run_exc, gen_outcome>>
         ELSE /\ rstep' = "ended"
              /\ run_exc' = RunHandler(outcome)
              /\ gen_outcome' = Append(gen_outcome, "not called")
    /\ UNCHANGED <<n_files, idx, started, ended, in_progress, written,
                   success, failed, batch_state, exit_code, otherThanRun>>

\* steps 2 to 4 of run_generation, and its except clauses when one raises
GenerateAndWrite ==
    /\ rstep = "generate"
    /\ \E outcome \in GenerateOutcomes, then \in PptxOutcomes :
         /\ gen_outcome' = Append(gen_outcome, outcome)
         /\ written' = IF PptxReached(outcome) THEN written \cup {idx}
                        ELSE written
         /\ run_exc' = IF outcome # "returned" THEN RunHandler(outcome)
                        ELSE IF then # "ok" THEN RunHandler(then)
                        ELSE NoRunExc
    /\ rstep' = "ended"
    /\ UNCHANGED <<n_files, idx, started, ended, in_progress, success,
                   failed, batch_state, exit_code, otherThanRun>>

\* run_generation has ended: the rest of the try statement of the loop
EndDocument ==
    /\ rstep = "ended"
    /\ ended' = Append(ended, idx)
    /\ in_progress' = in_progress \ {idx}
    /\ rstep' = "idle"
    /\ run_exc' = NoRunExc
    /\ IF run_exc = NoRunExc
       THEN /\ success' = Append(success, idx)
            /\ UNCHANGED <<failed, batch_state, exit_code>>
       ELSE IF BatchCatches(run_exc.cls)
       THEN /\ failed' = Append(failed, <<idx, run_exc.cls>>)
            /\ UNCHANGED <<success, batch_state, exit_code>>
       ELSE /\ batch_state' = "exited"
            /\ exit_code' = run_exc.code
            /\ UNCHANGED <<success, failed>>
    /\ UNCHANGED <<n_files, idx, started, gen_outcome, written, otherThanRun>>

\* the loop is over: the summary panel
PrintSummary ==
    /\ batch_state = "loop"
    /\ rstep = "idle"
    /\ idx >= n_files
    /\ batch_state' = "summary"
    /\ UNCHANGED <<n_files, idx, rstep, run_exc, started, ended, in_progress,
                   gen_outcome, written, success, failed, exit_code,
                   otherThanRun>>

NextRun ==
    NextDocument \/ ReadInput \/ GenerateAndWrite \/ EndDocument \/ PrintSummary

SpecRun == InitRun /\ [][NextRun]_vars

---------------------------------------------------------------------------
\* validate_presentation_data applied to a presentation object and then to
\* the object it returned (pptx_generator.py)

\* the top level of the data: with a title, without one, with an empty one,
\* with a key the function does not know
TopKinds == {"titled", "untitled", "emptytitle", "extra"}

TopFields(top) ==
    CASE top = "titled" -> KeyTitle :> JStr(<<"x">>)
      [] top = "untitled" -> <<>>
      [] top = "emptytitle" -> KeyTitle :> JStr(<<>>)
      [] top = "extra" -> (KeyTitle :> JStr(<<"x">>)) @@ (<<"author">> :> JStr(<<"a">>))

MkData(top, kinds) ==
    JObj(TopFields(top)
         @@ (KeySlides :> JArr([i \in 1..Len(kinds) |-> MkSlide(kinds[i], i)])))

InitValidate ==
    /\ IdleInvoker
    /\ IdleParse
    /\ IdleBullet /\ IdleDeck /\ IdlePrompt /\ IdleProv /\ IdleRun
    /\ \/ \E top \in TopKinds, kinds \in DeckInputs : vdata = MkData(top, kinds)
       \/ \E n \in 1..Len(OtherData) : vdata = OtherData[n]
    /\ once = Pending
    /\ twice = Pending
    /\ vstate = "input"

\* validate_presentation_data(vdata)
ValidateOnce ==
    /\ vstate = "input"
    /\ once' = ValidatePresentationData(vdata)
    /\ vstate' = IF once'.kind = "raise" THEN "raised" ELSE "once"
    /\ UNCHANGED <<vdata, twice, otherThanValid>>

\* validate_presentation_data applied to what the first call returned
ValidateAgain ==
    /\ vstate = "once"
    /\ twice' = ValidatePresentationData(once.val)
    /\ vstate' = "twice"
    /\ UNCHANGED <<vdata, once, otherThanValid>>

NextValidate == ValidateOnce \/ ValidateAgain

SpecValidate == InitValidate /\ [][NextValidate]_vars

---------------------------------------------------------------------------
\* Properties of the retry loops (specification Spec)

Classes(fs) == {fs[i].cls : i \in 1..Len(fs)}

Interrupted == pc = "raised" /\ raised.exc.cls = "KeyboardInterrupt"

\* rate limit, connection failure, or a reply that cannot be parsed
RetryableFailure(f) ==
    \/ f.cls \in {"RateLimitError", "APIConnectionError"}
    \/ f.cls = "ValueError" /\ f.msg \in {ParseFailed, NotAnObject}

AllRetryable(fs) == \A i \in 1..Len(fs) : RetryableFailure(fs[i])

\* missing configuration, or a request the backend rejects as malformed
FatalFailure(f) == f.cls \in {"BadRequestError", "AuthenticationError"}

\* C1: in one invocation the backend is called at most RETRY_ATTEMPTS times,
\* whatever the attempts' outcomes; the failures of every kind together use
\* up the one attempt counter (each failed attempt is one backend call, and
\* the calls never run ahead of the counter by more than the attempt in hand).
C1_AttemptBudget ==
    /\ calls <= RETRY_ATTEMPTS
    /\ Len(failures) <= calls
    /\ calls <= attempt + 1
    /\ \A i \in 1..Len(failures) : failures[i].at = i - 1

C1_Witness ==
    /\ who = Client
    /\ calls = RETRY_ATTEMPTS
    /\ Len(failures) = RETRY_ATTEMPTS
    /\ {"RateLimitError", "APIConnectionError", "ValueError"} \subseteq Classes(failures)

\* C2: when each of the first RETRY_ATTEMPTS - 1 attempts of
\* generate_presentation_content fails with a retryable error and the next
\* reply parses, the function returns the parsed presentation after exactly
\* RETRY_ATTEMPTS backend calls: it never raises while only retryable
\* failures, fewer than RETRY_ATTEMPTS, have happened, and what it returns
\* after k failures is the parse of reply k + 1.
C2_RetryThenSucceed ==
    (who = Client /\ AllRetryable(failures) /\ ~Interrupted
        /\ Len(failures) < RETRY_ATTEMPTS)
    => /\ pc # "raised"
       /\ pc = "returned" =>
            /\ calls = Len(failures) + 1
            /\ reply.kind = "text"
            /\ ret = ParseLLMResponse(reply.text)
            /\ ret.kind = "return"

C2_Witness ==
    /\ who = Client
    /\ pc = "returned"
    /\ calls = RETRY_ATTEMPTS
    /\ Len(failures) = RETRY_ATTEMPTS - 1
    /\ AllRetryable(failures)
    /\ failures[1].cls = "ValueError"
    /\ failures[2].cls = "RateLimitError"

\* C3: the values passed to progress_callback in one invocation never
\* decrease.
C3_ProgressMonotone ==
    \A i \in 1..(Len(progress) - 1) : progress[i] <= progress[i + 1]

\* C4: an attempt that fails with a fatal error (missing configuration, a
\* request rejected as malformed) is the last one: the invocation is over, no
\* backend call and no sleep follows it.
C4_FatalAborts ==
    \A i \in 1..Len(failures) :
        FatalFailure(failures[i]) =>
            /\ pc = "raised"
            /\ calls = i
            /\ \A k \in 1..Len(sleeps) : sleeps[k].at < i - 1

\* C5: a reply that parses to a JSON value that is not an object makes
\* parse_llm_response fail with the schema error, and is fatal for
\* generate_presentation_content: no backend call follows it.
C5_SchemaErrorFatal ==
    who = Client =>
        /\ \A i \in 1..Len(replies) :
              (replies[i].kind = "text" /\ Loads(Strip(replies[i].text)).ok
                  /\ Loads(Strip(replies[i].text)).val.k # "obj")
              => ParseLLMResponse(replies[i].text) = PRaise(NotAnObject)
        /\ \A i \in 1..Len(failures) :
              failures[i].msg = NotAnObject => (pc = "raised" /\ calls = i)

\* C6 as stated: when all RETRY_ATTEMPTS attempts have failed (the user not
\* interrupting), the invocation ends with the terminal error, which states
\* RETRY_ATTEMPTS and carries the error of the last failed attempt.
C6_AllFailTerminal ==
    (/\ Len(failures) = RETRY_ATTEMPTS
     /\ \A i \in 1..Len(failures) : failures[i].cls # "KeyboardInterrupt"
     /\ ~Interrupted
     /\ pc = "raised")
    => /\ raised.terminal
       /\ raised.attempts = RETRY_ATTEMPTS
       /\ raised.cause = failures[RETRY_ATTEMPTS]

\* C6, amended: when all RETRY_ATTEMPTS attempts have failed with an error
\* that an except clause of the loop catches, the invocation makes no further
\* call and does not return; it ends with the terminal error, which states
\* RETRY_ATTEMPTS and carries the error of the last failed attempt.
C6_TerminalError ==
    (/\ Len(failures) = RETRY_ATTEMPTS
     /\ \A i \in 1..Len(failures) : Catches(who, failures[i].cls)
     /\ ~Interrupted)
    => /\ pc \in {"sleep", "loop", "raised"}
       /\ pc = "raised" =>
            /\ raised.terminal
            /\ raised.attempts = RETRY_ATTEMPTS
            /\ raised.cause = failures[RETRY_ATTEMPTS]
            /\ raised.cause.at = RETRY_ATTEMPTS - 1

C6_Witness ==
    /\ pc = "raised"
    /\ raised.terminal
    /\ Len(failures) = RETRY_ATTEMPTS
    /\ failures[1].cls = "RateLimitError"
    /\ failures[RETRY_ATTEMPTS].cls = "APIConnectionError"
    /\ raised.cause.cls = "APIConnectionError"

\* C7: after a failed attempt with index i that is followed by a retry the
\* invoker sleeps for RETRY_DELAY * (i + 1), whatever the kind of the error.
C7_LinearBackoff ==
    \A k \in 1..Len(sleeps) :
        sleeps[k].at < RETRY_ATTEMPTS - 1
            => sleeps[k].secs = RETRY_DELAY * (sleeps[k].at + 1)

---------------------------------------------------------------------------
\* Properties of parse_llm_response (specification SpecParse)

\* a valid JSON object text with a title and a slides list
IsDeck(t) ==
    LET d == Loads(t) IN
    /\ d.ok
    /\ d.val.k = "obj"
    /\ KeyTitle \in DOMAIN d.val.v
    /\ KeySlides \in DOMAIN d.val.v
    /\ d.val.v[KeySlides].k = "arr"

\* C8: every value parse_llm_response returns is an object with a 'title'
\* and a 'slides' key.
C8_TitleAndSlides ==
    (pstate = "parsed" /\ parsed.kind = "return")
    => /\ parsed.val.k = "obj"
       /\ KeyTitle \in DOMAIN parsed.val.v
       /\ KeySlides \in DOMAIN parsed.val.v

\* C9: for a raw text that is itself a valid JSON object with a title and a
\* slides list, parse_llm_response returns exactly that object.
C9_NoFieldLoss ==
    (pstate = "parsed" /\ IsDeck(response_text))
    => parsed = PReturn(Loads(response_text).val)

\* C10: for a valid JSON object text J, parse_llm_response of J inside a
\* fenced block labelled json gives the same outcome as parse_llm_response
\* of J alone.
C10_FenceSameAsPlain ==
    (pstate = "parsed" /\ fenced
        /\ Loads(base_text).ok /\ Loads(base_text).val.k = "obj")
    => parsed = base_parsed

\* prose before and after the body, and no fence
ProseKinds == {"prose", "prose_open", "prose_close"}

\* C11: for a text without fences made of prose, one embedded JSON object and
\* more prose, parse_llm_response returns that embedded object.
C11_EmbeddedObject ==
    (pstate = "parsed" /\ ~fenced /\ wrap_kind \in ProseKinds
        /\ ~Contains(response_text, Fence)
        /\ Loads(body_text).ok /\ Loads(body_text).val.k = "obj")
    => parsed = PReturn(Loads(body_text).val)

\* C11 where the prose holds no brace: the span from the first opening brace
\* to the last closing brace is the embedded object
C11_BraceFreeProse ==
    (pstate = "parsed" /\ ~fenced /\ wrap_kind = "prose"
        /\ ~Contains(response_text, Fence)
        /\ Loads(body_text).ok /\ Loads(body_text).val.k = "obj")
    => parsed = PReturn(Loads(body_text).val)

---------------------------------------------------------------------------
\* Properties of create_content_slide (specification SpecBullet)

\* the indentation units (two spaces or one tab) a string starts with
RECURSIVE LeadingUnits(_)
LeadingUnits(s) ==
    IF StartsAt(s, <<" ", " ">>, 1) THEN 1 + LeadingUnits(DropFirst(s, 2))
    ELSE IF StartsAt(s, <<"\t">>, 1) THEN 1 + LeadingUnits(DropFirst(s, 1))
    ELSE 0

\* C12: each content string gets the level equal to the number of leading
\* indentation units it carries, capped at 2; markers do not raise the level
\* (two spaces, marker, text: level 1; two tabs, marker, text: level 2).
C12_LevelIsIndent ==
    (bstate = "done" /\ Strip(point) # <<>>)
    => p_level = Min(LeadingUnits(point), 2)

---------------------------------------------------------------------------
\* Properties of validate_presentation_data and generate_pptx
\* (specification SpecDeck)

\* the slides of the data as passed
InputSlides ==
    IF /\ presentation_data.k = "obj"
       /\ KeySlides \in DOMAIN presentation_data.v
       /\ presentation_data.v[KeySlides].k = "arr"
    THEN presentation_data.v[KeySlides].v
    ELSE <<>>

IsSlideRecord(sl) == sl.k = "obj"

TypeIs(sl, t) == KeyType \in DOMAIN sl.v /\ sl.v[KeyType] = JStr(<<t>>)

\* the content entries of an input slide; a lone string is one entry
EntriesOf(sl) ==
    IF KeyContent \notin DOMAIN sl.v THEN <<>>
    ELSE IF sl.v[KeyContent].k = "str" THEN <<sl.v[KeyContent]>>
    ELSE IF sl.v[KeyContent].k = "arr" THEN sl.v[KeyContent].v
    ELSE <<>>

\* an entry with a character that is not white space
NonBlankEntry(e) ==
    e.k = "str" => \E i \in 1..Len(e.v) : e.v[i] \notin Whitespace

HasNonBlank(sl) ==
    \E i \in 1..Len(EntriesOf(sl)) : NonBlankEntry(EntriesOf(sl)[i])

LacksSide(sl) == KeyLeft \notin DOMAIN sl.v \/ KeyRight \notin DOMAIN sl.v

Downgraded(sl) ==
    IsSlideRecord(sl) /\ TypeIs(sl, "comparison") /\ LacksSide(sl)

\* C13: a comparison slide that lacks 'left' or 'right' is laid out as a
\* content slide built from the non-blank entries of its 'content', and is
\* left out of the presentation when it has no such entry.
C13_ComparisonDowngraded ==
    dstate = "done"
    => \A i \in 1..Len(InputSlides) :
         LET sl == InputSlides[i] IN
         Downgraded(sl)
         => IF HasNonBlank(sl)
            THEN \E j \in 1..Len(prs) :
                   prs[j] = NewSlide("content", sl.v[KeyTitle],
                                     JArr(SelectSeq(EntriesOf(sl), NonBlankEntry)),
                                     NoVal, NoVal)
            ELSE \A j \in 1..Len(prs) : prs[j].title # sl.v[KeyTitle]

\* a comparison slide with 'left' but no 'right' came out as a content slide,
\* and another one without text was left out
C13_Witness ==
    /\ dstate = "done"
    /\ \E i \in 1..Len(InputSlides) :
         /\ Downgraded(InputSlides[i])
         /\ KeyLeft \in DOMAIN InputSlides[i].v
         /\ HasNonBlank(InputSlides[i])
         /\ \E j \in 1..Len(prs) :
              prs[j].layout = "content" /\ prs[j].title = InputSlides[i].v[KeyTitle]
    /\ \E i \in 1..Len(InputSlides) :
         /\ Downgraded(InputSlides[i])
         /\ ~HasNonBlank(InputSlides[i])

\* the slides validate_presentation_data returned
OutputSlides == validated.val.v[KeySlides].v

IsRetained(sl) ==
    \E j \in 1..Len(OutputSlides) : OutputSlides[j].v[KeyTitle] = sl.v[KeyTitle]

\* C14: validate_presentation_data retains an input slide record if and
\* only if it has a non-blank content entry or its type is 'section'; every
\* retained slide of another type has a non-empty content list.
C14_RetainRule ==
    validated.kind = "return"
    => /\ \A i \in 1..Len(InputSlides) :
            LET sl == InputSlides[i] IN
            IsSlideRecord(sl)
            => (IsRetained(sl) <=> (HasNonBlank(sl) \/ TypeIs(sl, "section")))
       /\ \A j \in 1..Len(OutputSlides) :
            OutputSlides[j].v[KeyType] # JStr(<<"section">>)
            => OutputSlides[j].v[KeyContent].v # <<>>

\* a section slide without text was retained and a content slide without
\* text was dropped
C14_Witness ==
    /\ validated.kind = "return"
    /\ \E i \in 1..Len(InputSlides) :
         LET sl == InputSlides[i] IN
         IsSlideRecord(sl) /\ TypeIs(sl, "section") /\ ~HasNonBlank(sl)
            /\ IsRetained(sl)
    /\ \E i \in 1..Len(InputSlides) :
         LET sl == InputSlides[i] IN
         IsSlideRecord(sl) /\ TypeIs(sl, "content") /\ ~IsRetained(sl)

\* C15: a theme name that is not a key of THEMES resolves to the tokens of
\* 'professional' and a key resolves to its own tokens; the resolution
\* raises nothing.
C15_ThemeFallback ==
    dstate \in {"slides", "done", "raised"}
    => /\ theme_name \notin DOMAIN THEMES => theme = THEMES["professional"]
       /\ theme_name \in DOMAIN THEMES => theme = THEMES[theme_name]
       /\ derr # "KeyError"

\* a presentation was saved under a theme name that is no key
C15_Witness ==
    /\ dstate = "done"
    /\ theme_name = "unknown"
    /\ theme.name = "Professional"

---------------------------------------------------------------------------
\* Properties of get_user_prompt (specification SpecPrompt)

\* what the prompt holds between its fixed parts
Embedded == SubSeq(user_prompt, 4, Len(user_prompt) - 1)

\* part holds exactly the first k characters of text
IsPrefixOfLen(part, text, k) ==
    /\ TextLen(part) = k
    /\ Len(part) <= Len(text)
    /\ \A i \in 1..Len(part) :
         /\ part[i].ch = text[i].ch
         /\ IF i < Len(part) THEN part[i].n = text[i].n
            ELSE part[i].n <= text[i].n

\* C18: the prompt embeds the document text unchanged when its length is at
\* most MAX_INPUT_CHARS, and otherwise exactly its first MAX_INPUT_CHARS
\* characters followed by the truncation marker.
C18_PromptTruncation ==
    qstate = "built"
    => /\ user_prompt[2] = Run(file_name, 1)
       /\ IF TextLen(file_content) <= MAX_INPUT_CHARS
          THEN Embedded = file_content
          ELSE /\ Embedded # <<>>
               /\ Embedded[Len(Embedded)] = TruncationMarker
               /\ IsPrefixOfLen(SubSeq(Embedded, 1, Len(Embedded) - 1),
                                file_content, MAX_INPUT_CHARS)

\* a text one character over the cap lost its last character
C18_Witness ==
    /\ qstate = "built"
    /\ file_content = <<Run("a", MAX_INPUT_CHARS), Run("b", 1)>>
    /\ Embedded = <<Run("a", MAX_INPUT_CHARS), TruncationMarker>>

---------------------------------------------------------------------------
\* Properties of the provider constructors (specification SpecProv)

NeedsCredential == {"deepseek", "openai", "anthropic"}

CredentialOf(name) ==
    CASE name = "deepseek" -> "DEEPSEEK_API_KEY"
      [] name = "openai" -> "OPENAI_API_KEY"
      [] name = "anthropic" -> "ANTHROPIC_API_KEY"

\* C17: constructing DeepSeek, OpenAI or Anthropic while its credential is
\* absent from the environment fails at construction with a configuration
\* error naming the missing setting, never later.
C17_FailsAtConstruction ==
    (/\ prov_state \in {"constructed", "raised", "called"}
     /\ Lower(provider_name) \in NeedsCredential
     /\ environ[CredentialOf(Lower(provider_name))] = "absent")
    => /\ prov_state = "raised"
       /\ prov_err.cls = "ValueError"
       /\ prov_err.msg = MissingMessage(CredentialOf(Lower(provider_name)))

\* C17 for the two constructors that test their variable
C17_OpenAIAnthropic ==
    (/\ prov_state \in {"constructed", "raised", "called"}
     /\ Lower(provider_name) \in {"openai", "anthropic"}
     /\ environ[CredentialOf(Lower(provider_name))] = "absent")
    => /\ prov_state = "raised"
       /\ prov_err.cls = "ValueError"
       /\ prov_err.msg = MissingMessage(CredentialOf(Lower(provider_name)))

---------------------------------------------------------------------------
\* Properties of run_generation and run_batch_generation
\* (specification SpecRun)

C19_OneAtATime ==
    /\ Cardinality(in_progress) <= 1
    /\ started = [i \in 1..Len(started) |-> i]
    /\ Len(ended) <= Len(started)
    /\ Len(started) <= Len(ended) + 1
    /\ ended = SubSeq(started, 1, Len(ended))
    /\ in_progress = {started[i] : i \in (Len(ended) + 1)..Len(started)}

\* the third file is in progress after the first two have ended
C19_Witness ==
    /\ started = <<1, 2, 3>>
    /\ ended = <<1, 2>>
    /\ in_progress = {3}

---------------------------------------------------------------------------
\* Interrupts in the retry loops (specification Spec)

\* C20: a user interrupt raised during a backend call or a retry sleep ends
\* the invocation at once: no except clause takes it, it is not recorded as
\* the last error, no later attempt is made and nothing is returned.
C20_InterruptEnds ==
    /\ (pc = "except" /\ exc.cls = "KeyboardInterrupt")
       => ~Catches(who, exc.cls)
    /\ raised.exc.cls = "KeyboardInterrupt"
       => /\ pc = "raised"
          /\ ~raised.terminal
          /\ ret = Pending
          /\ last_error.cls # "KeyboardInterrupt"
          /\ attempt = raised.exc.at
          /\ calls = raised.exc.at + 1
          /\ \A i \in 1..Len(sleeps) : sleeps[i].at <= raised.exc.at

\* the second backend call of a provider was interrupted
C20_Witness ==
    /\ Interrupted
    /\ who # Client
    /\ raised.exc.msg = "backend"
    /\ calls = 2

\* a retry sleep was interrupted
C20_WitnessSleep ==
    /\ Interrupted
    /\ raised.exc.msg = "sleep"

\* an invocation that ended with an exception returned nothing
C16_NoDataOnError == pc = "raised" => ret = Pending

---------------------------------------------------------------------------
\* The end of the retry loops and the progress reports (specification Spec)

\* C21: no backoff sleep follows the final attempt: when attempt
\* RETRY_ATTEMPTS - 1 fails the invoker raises the terminal error without
\* sleeping first, whatever the kind of the error.
C21_NoSleepAfterFinal ==
    \A k \in 1..Len(sleeps) : sleeps[k].at < RETRY_ATTEMPTS - 1

\* the providers test attempt < RETRY_ATTEMPTS - 1 before every sleep, and
\* so do the clauses of generate_presentation_content other than the one for
\* RateLimitError
C21_OnlyRateLimitClause ==
    \A k \in 1..Len(sleeps) :
        sleeps[k].at = RETRY_ATTEMPTS - 1
            => /\ who = Client
               /\ Len(failures) = RETRY_ATTEMPTS
               /\ failures[RETRY_ATTEMPTS].cls = "RateLimitError"

\* the number of reports of value v so far
Reports(v) == Cardinality({i \in 1..Len(progress) : progress[i] = v})

\* C22: in generate_presentation_content 0.8 is reported only after a
\* backend call has returned (one report per returned call), 1.0 is reported
\* only after parse_llm_response has succeeded on that reply, 1.0 is the
\* last value of the invocation, and an invocation that ends in an error
\* never reports 1.0.
C22_ProgressOrder ==
    who = Client =>
        /\ Reports(ProgressReceived) = Len(replies)
        /\ Len(replies) <= calls
        /\ \A i \in 1..Len(progress) :
              progress[i] = ProgressDone =>
                /\ i = Len(progress)
                /\ i > 1
                /\ progress[i - 1] = ProgressReceived
                /\ pc = "returned"
                /\ reply.kind = "text"
                /\ ParseLLMResponse(reply.text).kind = "return"
                /\ ret = ParseLLMResponse(reply.text)
        /\ pc = "raised" => Reports(ProgressDone) = 0
        /\ pc = "returned" => Reports(ProgressDone) = 1

\* the third reply parses after two that did not: 0.8 three times, 1.0 once
\* and last
C22_Witness ==
    /\ who = Client
    /\ pc = "returned"
    /\ Len(replies) = RETRY_ATTEMPTS
    /\ Reports(ProgressReceived) = RETRY_ATTEMPTS
    /\ progress[Len(progress)] = ProgressDone

\* an invocation that reported 0.8 and ended in the terminal error
C22_WitnessError ==
    /\ who = Client
    /\ pc = "raised"
    /\ raised.terminal
    /\ Reports(ProgressReceived) > 0

---------------------------------------------------------------------------
\* The paragraphs of create_content_slide (specification SpecBullet)

\* the for loop has taken every content string and set its paragraph
LoopOver == bstate \in {"for", "done"} /\ point_i = Len(bullet_points)

\* C23: the level given to a bullet is an integer from 0 to 2, however many
\* indentation units and markers the content string holds (the local level
\* stays in the range in every pass of the while loop, too).
C23_LevelInRange ==
    /\ level \in 0..MAX_LEVEL
    /\ p_level \in 0..MAX_LEVEL
    /\ \A k \in 1..Len(paragraphs) : paragraphs[k].level \in 0..MAX_LEVEL

\* a marker followed by three tabs: the third tab meets the cap
C23_Witness ==
    /\ bstate = "done"
    /\ point = <<"-", " ", "\t", "\t", "\t", "a">>
    /\ p_text = <<"a">>
    /\ p_level = MAX_LEVEL

\* what the while loop leaves of s
RECURSIVE StrippedText(_)
StrippedText(s) == IF HasPrefix(s) THEN StrippedText(PointAfter(s)) ELSE s

\* the display text of a content string
DisplayText(pt) == StrippedText(Strip(pt))

\* the content strings taken so far whose display text is not empty
NonEmptyPoints ==
    {k \in 1..Len(paragraphs) : DisplayText(bullet_points[k]) # <<>>}

C24_OneParagraphPerPoint ==
    /\ Len(paragraphs) \in {point_i - 1, point_i}
    /\ bstate \in {"for", "done"} => Len(paragraphs) = point_i
    /\ \A k \in 1..Len(paragraphs) :
          paragraphs[k].text = DisplayText(bullet_points[k])

\* C30: the while loop of create_content_slide terminates for every content
\* string: each pass removes at least one character of clean_point, which
\* never grows beyond the stripped string; and a content string that has a
\* character other than whitespace never ends with an empty display text.
C30_LoopTerminates ==
    /\ (bstate = "loop" /\ HasPrefix(clean_point))
          => Len(PointAfter(clean_point)) < Len(clean_point)
    /\ bstate \in {"loop", "done"} => Len(clean_point) <= Len(Strip(point))
    /\ (bstate = "done" /\ Strip(point) # <<>>) => p_text # <<>>
    /\ \A k \in 1..Len(paragraphs) :
          Strip(bullet_points[k]) # <<>> => paragraphs[k].text # <<>>

\* two markers and an indentation are removed in three passes and the text
\* that is left is not empty
C30_Witness ==
    /\ bstate = "done"
    /\ point = <<"-", " ", "*", " ", "\t", "a">>
    /\ p_text = <<"a">>
    /\ p_level = 1

\* the loop over: a string of markers only keeps its last marker as text
C30_WitnessMarkersOnly ==
    /\ LoopOver
    /\ bullet_points = << <<"-", " ", "-", " ", "-">> >>
    /\ paragraphs = << [text |-> <<"-">>, level |-> 0] >>

---------------------------------------------------------------------------
\* Slide types and order in validate_presentation_data and generate_pptx
\* (specification SpecDeck)

\* a slide record whose type is missing or is none of the three known ones
OtherType(sl) ==
    /\ IsSlideRecord(sl)
    /\ ~TypeIs(sl, "content") /\ ~TypeIs(sl, "section")
    /\ ~TypeIs(sl, "comparison")

\* the slides added to the presentation under the title of sl
EmittedFor(sl) == {j \in 1..Len(prs) : prs[j].title = sl.v[KeyTitle]}

\* C25: a slide whose type is missing or is not content, section or
\* comparison is treated as a content slide: it is retained exactly when it
\* has a non-blank content entry, and it is laid out as a content slide
\* built from these entries.
C25_UnknownTypeIsContent ==
    /\ validated.kind = "return"
       => \A i \in 1..Len(InputSlides) :
            OtherType(InputSlides[i])
            => (IsRetained(InputSlides[i]) <=> HasNonBlank(InputSlides[i]))
    /\ dstate = "done"
       => \A i \in 1..Len(InputSlides) :
            LET sl == InputSlides[i] IN
            OtherType(sl)
            => IF HasNonBlank(sl)
               THEN /\ Cardinality(EmittedFor(sl)) = 1
                    /\ \A j \in EmittedFor(sl) :
                         prs[j] = NewSlide("content", sl.v[KeyTitle],
                                    JArr(SelectSeq(EntriesOf(sl), NonBlankEntry)),
                                    NoVal, NoVal)
               ELSE EmittedFor(sl) = {}

\* a slide of type 'x' with columns and a slide without a type came out as
\* content slides
C25_Witness ==
    /\ dstate = "done"
    /\ \E i \in 1..Len(InputSlides) :
         LET sl == InputSlides[i] IN
         /\ IsSlideRecord(sl) /\ TypeIs(sl, "x") /\ KeyLeft \in DOMAIN sl.v
         /\ \E j \in EmittedFor(sl) : prs[j].layout = "content"
    /\ \E i \in 1..Len(InputSlides) :
         LET sl == InputSlides[i] IN
         /\ IsSlideRecord(sl) /\ KeyType \notin DOMAIN sl.v
         /\ \E j \in EmittedFor(sl) : prs[j].layout = "content"

\* a slide of an unknown type without text was left out
C25_WitnessDropped ==
    /\ dstate = "done"
    /\ \E i \in 1..Len(InputSlides) :
         LET sl == InputSlides[i] IN
         /\ IsSlideRecord(sl) /\ TypeIs(sl, "x") /\ ~HasNonBlank(sl)
         /\ EmittedFor(sl) = {}

\* a comparison slide whose 'left' and 'right' are present and not empty
TwoColumns(sl) ==
    /\ IsSlideRecord(sl) /\ TypeIs(sl, "comparison")
    /\ KeyLeft \in DOMAIN sl.v /\ Truthy(sl.v[KeyLeft])
    /\ KeyRight \in DOMAIN sl.v /\ Truthy(sl.v[KeyRight])

\* C26: a comparison slide with both columns keeps them (and the column
\* titles) through validate_presentation_data and is laid out as a
\* two-column slide, not as a content slide, with or without a 'content'.
C26_ComparisonKeepsColumns ==
    /\ validated.kind = "return"
       => \A i \in 1..Len(InputSlides) :
            LET sl == InputSlides[i] IN
            TwoColumns(sl)
            => \E j \in 1..Len(OutputSlides) :
                 LET out == OutputSlides[j] IN
                 /\ out.v[KeyTitle] = sl.v[KeyTitle]
                 /\ KeyLeft \in DOMAIN out.v /\ out.v[KeyLeft] = sl.v[KeyLeft]
                 /\ KeyRight \in DOMAIN out.v /\ out.v[KeyRight] = sl.v[KeyRight]
                 /\ KeyLeftTitle \in DOMAIN sl.v
                    => (KeyLeftTitle \in DOMAIN out.v
                        /\ out.v[KeyLeftTitle] = sl.v[KeyLeftTitle])
    /\ dstate = "done"
       => \A i \in 1..Len(InputSlides) :
            LET sl == InputSlides[i] IN
            TwoColumns(sl)
            => /\ EmittedFor(sl) # {}
               /\ \A j \in EmittedFor(sl) :
                    /\ prs[j].layout = "two_column"
                    /\ prs[j].left = sl.v[KeyLeft]
                    /\ prs[j].right = sl.v[KeyRight]

\* what the code does with such a slide: the columns are not copied, so it
\* is never laid out in two columns; it is a content slide when it has a
\* non-blank content entry and is left out when it has none
C26_ColumnsDropped ==
    /\ validated.kind = "return"
       => \A j \in 1..Len(OutputSlides) :
            DOMAIN OutputSlides[j].v = {KeyTitle, KeyContent, KeyNotes, KeyType}
    /\ \A j \in 1..Len(prs) : prs[j].layout # "two_column"
    /\ dstate = "done"
       => \A i \in 1..Len(InputSlides) :
            LET sl == InputSlides[i] IN
            TwoColumns(sl)
            => IF HasNonBlank(sl)
               THEN \A j \in EmittedFor(sl) : prs[j].layout = "content"
               ELSE EmittedFor(sl) = {}

---------------------------------------------------------------------------
\* validate_presentation_data applied twice (specification SpecValidate)

\* C27: validate_presentation_data is idempotent: applied to its own result
\* it returns a result equal to the first one, with the same title and the
\* same slides in the same order with the same fields.
C27_ValidateIdempotent ==
    vstate = "twice"
    => /\ twice.kind = "return"
       /\ twice.val.v[KeyTitle] = once.val.v[KeyTitle]
       /\ twice.val.v[KeySlides] = once.val.v[KeySlides]
       /\ twice = once

\* the first call changed the data (the first slide dropped, blank entries
\* of the second removed, the title filled in) and the second call changed
\* nothing more
C27_Witness ==
    /\ vstate = "twice"
    /\ twice = once
    /\ vdata.k = "obj"
    /\ KeyTitle \notin DOMAIN vdata.v
    /\ KeySlides \in DOMAIN vdata.v
    /\ vdata.v[KeySlides].k = "arr"
    /\ Len(vdata.v[KeySlides].v) = 2
    /\ Len(once.val.v[KeySlides].v) = 1
    /\ once.val.v[KeyTitle] = JStr(<<"Untitled Presentation">>)
    /\ once.val.v[KeySlides].v[1].v[KeyTitle] = JStr(SlideTitle(2))
    /\ Len(once.val.v[KeySlides].v[1].v[KeyContent].v)
         < Len(EntriesOf(vdata.v[KeySlides].v[2]))

---------------------------------------------------------------------------
\* The order of the slides (specification SpecDeck)

\* the position among the input slides of the slide with this title, 0 when
\* there is none
InputPosition(title) ==
    LET at == {i \in 1..Len(InputSlides) :
                 /\ IsSlideRecord(InputSlides[i])
                 /\ KeyTitle \in DOMAIN InputSlides[i].v
                 /\ InputSlides[i].v[KeyTitle] = title}
    IN IF at = {} THEN 0 ELSE CHOOSE i \in at : \A k \in at : i <= k

\* C28: validate_presentation_data neither reorders nor duplicates slides:
\* the titles of the retained slides are a subsequence of the input slides'
\* titles in input order; generate_pptx emits the retained slides in that
\* order between one leading title slide and one closing slide.
C28_OrderKept ==
    /\ validated.kind = "return"
       => /\ \A j \in 1..Len(OutputSlides) :
                InputPosition(OutputSlides[j].v[KeyTitle]) > 0
          /\ \A j, k \in 1..Len(OutputSlides) :
                j < k => InputPosition(OutputSlides[j].v[KeyTitle])
                           < InputPosition(OutputSlides[k].v[KeyTitle])
    /\ dstate = "slides"
       => /\ Len(prs) = next_slide
          /\ prs[1].layout = "title"
          /\ \A j \in 2..Len(prs) :
                /\ prs[j].layout \in {"content", "section", "two_column"}
                /\ prs[j].title = OutputSlides[j - 1].v[KeyTitle]
    /\ dstate = "done"
       => /\ Len(prs) = Len(OutputSlides) + 2
          /\ prs[1].layout = "title"
          /\ prs[Len(prs)].layout = "thank_you"
          /\ \A j \in 2..(Len(prs) - 1) :
                /\ prs[j].layout \in {"content", "section", "two_column"}
                /\ prs[j].title = OutputSlides[j - 1].v[KeyTitle]

\* the second of three slides had no text and was dropped; the first and
\* the third were emitted in their order between the title slide and the
\* closing slide
C28_Witness ==
    /\ dstate = "done"
    /\ Len(InputSlides) = 3
    /\ IsSlideRecord(InputSlides[2])
    /\ ~IsRetained(InputSlides[2])
    /\ Len(prs) = 4
    /\ prs[1].layout = "title"
    /\ prs[2].title = JStr(SlideTitle(1))
    /\ prs[3].title = JStr(SlideTitle(3))
    /\ prs[2].layout = "content"
    /\ prs[3].layout = "section"
    /\ prs[4].layout = "thank_you"

---------------------------------------------------------------------------
\* Failures in a batch (specification SpecRun)

\* the files recorded in results['failed']
FailedFiles == {failed[k][1] : k \in 1..Len(failed)}

SucceededFiles == {success[k] : k \in 1..Len(success)}

\* the batch was ended by the user's interrupt during the file in hand
EndedByInterrupt == batch_state = "exited" /\ exit_code = 0

\* C29: a document whose processing fails (the file cannot be read, the
\* generation ends in its terminal error) is recorded in the failed list,
\* the documents after it are still processed, and the summary is printed
\* with completed + failed equal to the number of input files; only the
\* user's interrupt ends a batch early.
C29_FailureIsolated ==
    /\ \A k \in 1..Len(ended) :
          \/ ended[k] \in SucceededFiles
          \/ ended[k] \in FailedFiles
          \/ EndedByInterrupt /\ k = Len(ended)
    /\ batch_state = "exited" => exit_code = 0
    /\ batch_state = "summary"
       => /\ Len(started) = n_files
          /\ Len(success) + Len(failed) = n_files

\* what the code does: an error that run_generation raises again (not a
\* FileNotFoundError, not a ValueError) is recorded and the loop goes on,
\* and a summary that is printed has the counts of all the files; a
\* FileNotFoundError or ValueError ends the whole batch with exit code 1
C29_ExitOrRecord ==
    /\ \A k \in 1..Len(ended) :
          \/ ended[k] \in SucceededFiles
          \/ ended[k] \in FailedFiles
          \/ batch_state = "exited" /\ k = Len(ended)
    /\ \A k \in 1..Len(failed) :
          failed[k][2] \notin {"FileNotFoundError", "ValueError", "SystemExit"}
    /\ batch_state = "exited" => exit_code \in {0, 1}
    /\ batch_state = "summary"
       => /\ Len(started) = n_files
          /\ Len(success) + Len(failed) = n_files

\* the first of three files could not be read and the batch ended there
C29_WitnessExit ==
    /\ n_files = 3
    /\ batch_state = "exited"
    /\ exit_code = 1
    /\ started = <<1>>
    /\ gen_outcome = <<"not called">>
    /\ failed = <<>>

====
